---------------------------- MODULE Spec2Model ----------------------------
(***************************************************************************)
(* A model of http-encoding (src/src/index.ts): the buffered entry points  *)
(* encodeBuffer / decodeBuffer / decodeBufferSync, the Base64 codec, and   *)
(* the streaming API createEncodeStream / createDecodeStream.              *)
(*                                                                         *)
(* Representation.                                                         *)
(*  - A byte buffer is a sequence of naturals in 0..255.                   *)
(*  - A JavaScript string used as an encoding is the sequence of its       *)
(*    pieces between occurrences of the separator ", " (so the string      *)
(*    "gzip, br" is <<"gzip", "br">>, "gzip" is <<"gzip">> and the empty   *)
(*    string is <<"">>).  A piece never contains ", ".                     *)
(*  - An encoding argument is Undefined, Str(pieces) or List(strings).     *)
(*  - The compression engines (zlib, brotli, zstd) are external.  They are *)
(*    modelled at their interface: compress puts a frame header in front   *)
(*    of the payload, decompress accepts exactly the frames of its format. *)
(***************************************************************************)
EXTENDS Integers, Sequences, FiniteSets, TLC

(***************************************************************************)
(* Bounds of the model.                                                    *)
(***************************************************************************)
\* longest plaintext handed to the buffered API
MaxLen == 3
\* most encodeBuffer calls applied to one body
MaxChain == 2

(***************************************************************************)
(* Generic helpers.                                                        *)
(***************************************************************************)
Reverse(s) == [i \in 1..Len(s) |-> s[Len(s) + 1 - i]]

RECURSIVE SeqsUpTo(_, _)
SeqsUpTo(S, n) ==
    IF n = 0 THEN {<<>>}
    ELSE LET shorter == SeqsUpTo(S, n - 1)
         IN  shorter \cup {Append(s, x) : s \in shorter, x \in S}

Pow2(n) == 2 ^ n

(***************************************************************************)
(* Encoding arguments: string | string[] | undefined.                      *)
(***************************************************************************)
Undefined == [t |-> "undefined"]
Str(pieces) == [t |-> "string", parts |-> pieces]
List(strings) == [t |-> "list", items |-> strings]

IsString(e) == e.t = "string"
IsArray(e) == e.t = "list"
\* !encoding : undefined and the empty string are falsy
Falsy(e) == e.t = "undefined" \/ (e.t = "string" /\ e.parts = <<"">>)
\* encoding.indexOf(', ') >= 0  /  encoding.includes(', ')
IncludesSep(e) == Len(e.parts) > 1
\* encoding.split(', ')
Split(e) == [i \in 1..Len(e.parts) |-> Str(<<e.parts[i]>>)]

\* String.prototype.toLowerCase on one piece, over the pieces of the model
LowerPiece(p) ==
    CASE p = "GZIP" -> "gzip"
      [] p = "Deflate" -> "deflate"
      [] p = "BR" -> "br"
      [] p = "Base64" -> "base64"
      [] p = "Identity" -> "identity"
      [] p = "UTF-8" -> "utf-8"
      [] p = "Randomized" -> "randomized"
      [] OTHER -> p

\* mutant: the token is compared as written
toLowerCase_asWritten(e) == e

toLowerCase(e) == Str([i \in 1..Len(e.parts) |-> LowerPiece(e.parts[i])])

\* mutant: the list without its last two aliases
IDENTITY_ENCODINGS_short ==
    << Str(<<"identity">>), Str(<<"amz-1.0">>), Str(<<"none">>), Str(<<"text">>),
       Str(<<"binary">>) >>

IDENTITY_ENCODINGS ==
    << Str(<<"identity">>), Str(<<"amz-1.0">>), Str(<<"none">>), Str(<<"text">>),
       Str(<<"binary">>), Str(<<"utf8">>), Str(<<"utf-8">>) >>

\* Array.prototype.includes
Includes(arr, x) == \E i \in 1..Len(arr) : arr[i] = x

(***************************************************************************)
(* Results of a call: a value, or a thrown error / rejected promise.       *)
(***************************************************************************)
Ok(v) == [ok |-> TRUE, val |-> v]
Unsupported(e) == [ok |-> FALSE, err |-> "Unsupported encoding", token |-> e.parts]
EngineError(which) == [ok |-> FALSE, err |-> "engine", token |-> <<which>>]

(***************************************************************************)
(* External compression engines, at their interface.  A compressed buffer  *)
(* is <<header byte, level byte>> \o payload; the header bytes are the     *)
(* first bytes the real formats produce.                                   *)
(***************************************************************************)
\* 0x1f : first byte of a gzip member
GZIP_MAGIC == 31
\* 0x78 : CMF byte of a zlib stream (low nibble 8 = method deflate)
ZLIB_CMF == 120
\* 0x4b : a first byte of a raw deflate stream (final block, fixed Huffman)
RAW_DEFLATE_HDR == 75
\* 0x0b : a brotli stream header byte
BROTLI_HDR == 11
\* 0x28 : first byte of the zstd frame magic
ZSTD_MAGIC == 40
\* level used by an engine that is given no level (zlib's default)
ENGINE_DEFAULT_LEVEL == 6

Frame(hdr, level, b) == <<hdr, level>> \o b
IsFrame(hdr, x) == Len(x) >= 2 /\ x[1] = hdr
Payload(x) == SubSeq(x, 3, Len(x))

gzip(b, level) == Frame(GZIP_MAGIC, level, b)
gunzip(x) == IF IsFrame(GZIP_MAGIC, x) THEN Ok(Payload(x)) ELSE EngineError("gunzip")
deflate(b, level) == Frame(ZLIB_CMF, level, b)
inflate(x) == IF IsFrame(ZLIB_CMF, x) THEN Ok(Payload(x)) ELSE EngineError("inflate")
deflateRaw(b, level) == Frame(RAW_DEFLATE_HDR, level, b)
inflateRaw(x) ==
    IF IsFrame(RAW_DEFLATE_HDR, x) THEN Ok(Payload(x)) ELSE EngineError("inflateRaw")
brotliCompress(b, level) == Frame(BROTLI_HDR, level, b)
brotliDecompress(x) ==
    IF IsFrame(BROTLI_HDR, x) THEN Ok(Payload(x)) ELSE EngineError("brotliDecompress")
zstdCompress(b, level) == Frame(ZSTD_MAGIC, level, b)
zstdDecompress(x) ==
    IF IsFrame(ZSTD_MAGIC, x) THEN Ok(Payload(x)) ELSE EngineError("zstdDecompress")

(***************************************************************************)
(* Base64: tables (index.ts 110-130).                                      *)
(***************************************************************************)
\* 'ABCDEFGHIJKLMNOPQRSTUVWXYZabcdefghijklmnopqrstuvwxyz0123456789+/'
BASE64_CHARS ==
    << 65, 66, 67, 68, 69, 70, 71, 72, 73, 74, 75, 76, 77,
       78, 79, 80, 81, 82, 83, 84, 85, 86, 87, 88, 89, 90,
       97, 98, 99, 100, 101, 102, 103, 104, 105, 106, 107, 108, 109,
       110, 111, 112, 113, 114, 115, 116, 117, 118, 119, 120, 121, 122,
       48, 49, 50, 51, 52, 53, 54, 55, 56, 57, 43, 47 >>

\* BASE64_CHAR_CODES[i], i in 0..63
BASE64_CHAR_CODES(i) == BASE64_CHARS[i + 1]

\* '=' (the code writes 61)
PAD == 61

\* BASE64_DECODE_LOOKUP: 255 = invalid, 254 = whitespace, '=' = 0
\* mutant: the table has no entries for the URL-safe variants
BASE64_DECODE_LOOKUP_standardOnly ==
    [c \in 0..255 |->
        IF c = 61 THEN 0
        ELSE IF c \in {32, 9, 10, 13} THEN 254
        ELSE IF \E i \in 0..63 : BASE64_CHARS[i + 1] = c
             THEN CHOOSE i \in 0..63 : BASE64_CHARS[i + 1] = c
             ELSE 255]

BASE64_DECODE_LOOKUP ==
    [c \in 0..255 |->
        IF c = 61 THEN 0
        ELSE IF c \in {32, 9, 10, 13} THEN 254
        ELSE IF c = 45 THEN 62
        ELSE IF c = 95 THEN 63
        ELSE IF \E i \in 0..63 : BASE64_CHARS[i + 1] = c
             THEN CHOOSE i \in 0..63 : BASE64_CHARS[i + 1] = c
             ELSE 255]

(***************************************************************************)
(* encodeBase64Lookup (index.ts 132-163).                                  *)
(***************************************************************************)
RECURSIVE encodeFullGroups(_, _)
\* the loop  for (; i + 2 < len; i += 3)
encodeFullGroups(bytes, i) ==
    IF i + 2 < Len(bytes)
    THEN LET a == bytes[i + 1]
             b == bytes[i + 2]
             c == bytes[i + 3]
         IN  << BASE64_CHAR_CODES(a \div 4),
                BASE64_CHAR_CODES(((a % 4) * 16) + (b \div 16)),
                BASE64_CHAR_CODES(((b % 16) * 4) + (c \div 64)),
                BASE64_CHAR_CODES(c % 64) >> \o encodeFullGroups(bytes, i + 3)
    ELSE <<>>

encodeBase64Lookup(bytes) ==
    LET len == Len(bytes)
        i == (len \div 3) * 3
        tail ==
            IF i < len
            THEN LET a == bytes[i + 1]
                 IN  IF i + 1 < len
                     THEN LET b == bytes[i + 2]
                          IN  << BASE64_CHAR_CODES(a \div 4),
                                 BASE64_CHAR_CODES(((a % 4) * 16) + (b \div 16)),
                                 BASE64_CHAR_CODES((b % 16) * 4),
                                 PAD >>
                     ELSE << BASE64_CHAR_CODES(a \div 4),
                             BASE64_CHAR_CODES((a % 4) * 16),
                             PAD, PAD >>
            ELSE <<>>
    IN  encodeFullGroups(bytes, 0) \o tail

(***************************************************************************)
(* decodeBase64Lookup (index.ts 165-201).                                  *)
(***************************************************************************)
InvalidBase64(pos, byte) ==
    [ok |-> FALSE, err |-> "Invalid base64 character", token |-> <<pos, byte>>]

\* mutant: no byte is taken for invalid
InvalidPositions_none(bytes) == {}

\* positions (0-based) of bytes the table marks invalid
InvalidPositions(bytes) ==
    {i \in 0..(Len(bytes) - 1) : BASE64_DECODE_LOOKUP[bytes[i + 1]] = 255}

MinOf(S) == CHOOSE x \in S : \A y \in S : x <= y

\* first pass of decodeBase64Lookup: chars with v < 64 ('=' included, as 0)
LookupValidCount(bytes) ==
    Cardinality({i \in 1..Len(bytes) : BASE64_DECODE_LOOKUP[bytes[i]] < 64})

RECURSIVE decodeLookupLoop(_, _, _, _, _, _)
\* second pass:  for (i = 0; i < length && j < resultLen; i++)
\* buffer is a 32-bit register of which  (buffer >> bufferLen) & 0xff  reads bits
\* below 13 only (bufferLen <= 5 there): its low 24 bits are kept
decodeLookupLoop(bytes, resultLen, i, buffer, bufferLen, result) ==
    IF i < Len(bytes) /\ Len(result) < resultLen
    THEN LET v == BASE64_DECODE_LOOKUP[bytes[i + 1]]
         IN  IF v >= 64
             THEN decodeLookupLoop(bytes, resultLen, i + 1, buffer, bufferLen, result)
             ELSE LET buffer2 == ((buffer * 64) + v) % Pow2(24)
                      len2 == bufferLen + 6
                  IN  IF len2 >= 8
                      THEN decodeLookupLoop(bytes, resultLen, i + 1, buffer2, len2 - 8,
                               Append(result, (buffer2 \div Pow2(len2 - 8)) % 256))
                      ELSE decodeLookupLoop(bytes, resultLen, i + 1, buffer2, len2, result)
    ELSE result

decodeBase64Lookup(base64Bytes) ==
    LET bad == InvalidPositions(base64Bytes)
        validCount == LookupValidCount(base64Bytes)
        resultLen == ((validCount \div 4) * 3) +
                     (IF validCount % 4 = 3 THEN 2 ELSE IF validCount % 4 = 2 THEN 1 ELSE 0)
    IN  IF bad # {}
        THEN InvalidBase64(MinOf(bad), base64Bytes[MinOf(bad) + 1])
        ELSE Ok(decodeLookupLoop(base64Bytes, resultLen, 0, 0, 0, <<>>))

(***************************************************************************)
(* Node's Buffer, used when hasBuffer (index.ts 205-219).                  *)
(*   buf.toString('base64') is RFC 4648 with padding.                      *)
(*   Buffer.from(str, 'base64') accepts both alphabets, skips every other  *)
(*   character, stops at the first '=', and decodes a trailing group of 2  *)
(*   or 3 symbols to 1 or 2 bytes.                                         *)
(***************************************************************************)
RECURSIVE BufferToStringBase64(_)
BufferToStringBase64(bytes) ==
    IF Len(bytes) = 0 THEN <<>>
    ELSE LET k == IF Len(bytes) >= 3 THEN 3 ELSE Len(bytes)
             n == (bytes[1] * 65536) +
                  (IF k >= 2 THEN bytes[2] * 256 ELSE 0) +
                  (IF k >= 3 THEN bytes[3] ELSE 0)
             sym == << n \div 262144, (n \div 4096) % 64, (n \div 64) % 64, n % 64 >>
             grp == [j \in 1..4 |-> IF j <= k + 1 THEN BASE64_CHARS[sym[j] + 1] ELSE PAD]
         IN  grp \o BufferToStringBase64(SubSeq(bytes, k + 1, Len(bytes)))

\* the 6-bit values of the symbols Buffer.from(str, 'base64') decodes
RECURSIVE NodeSymbols(_, _)
NodeSymbols(chars, i) ==
    IF i > Len(chars) \/ chars[i] = PAD THEN <<>>
    ELSE LET v == BASE64_DECODE_LOOKUP[chars[i]]
         IN  (IF v < 64 THEN <<v>> ELSE <<>>) \o NodeSymbols(chars, i + 1)

RECURSIVE SymbolsToBytes(_)
SymbolsToBytes(sym) ==
    IF Len(sym) < 2 THEN <<>>
    ELSE LET b1 == (sym[1] * 4) + (sym[2] \div 16)
         IN  IF Len(sym) = 2 THEN <<b1>>
             ELSE LET b2 == ((sym[2] % 16) * 16) + (sym[3] \div 4)
                  IN  IF Len(sym) = 3 THEN <<b1, b2>>
                      ELSE <<b1, b2, ((sym[3] % 4) * 64) + sym[4]>>
                           \o SymbolsToBytes(SubSeq(sym, 5, Len(sym)))

BufferFromBase64(chars) == SymbolsToBytes(NodeSymbols(chars, 1))

(***************************************************************************)
(* State.                                                                  *)
(***************************************************************************)
VARIABLES
    hasBuffer,   \* index.ts 107: is Node's Buffer available in this runtime
    scenario,    \* the inputs fed: "buffered" (no stream), "zstd engine", "codec",
                 \* "base64 text", "base64 batches", "base64 chunks", "base64 chain"
                 \* or "fallback"
    orig,        \* the plaintext the session started from
    body,        \* the buffer the next call is given
    applied,     \* the encodings applied to orig so far, in order
    op,          \* the last call: [fn, spec, arg, res]
    zlibHasZstd, \* index.ts 59: zlib.zstdCompress && zlib.zstdDecompress
    codecLoad,   \* what loading zstd-codec comes to: "loads", "import fails" or
                 \* "never initialises" (ZstdCodec.run never calls back)
    zstd,        \* index.ts 56: let zstd: "undefined", "pending" or "resolved"
    loader,      \* the executor of index.ts 85-90: "idle", "importing", "running",
                 \* "done" or "threw"
    calls,       \* the zstd calls made: [fn, arg, level, state, res, created, awaits]
    zstdStreamClasses, \* index.ts 480: let zstdStreamClasses: "undefined",
                 \* "pending" or "resolved"
    fstreams     \* the brotli-wasm and zstd-codec fallback streams created

bufVars == <<orig, body, applied, op>>

fallbackVars == <<zstdStreamClasses, fstreams>>

zstdVars == <<zlibHasZstd, codecLoad, zstd, loader, calls, fallbackVars>>

\* no zstd call has been made; Node's built-in zstd is there
ZstdIdle ==
    /\ zlibHasZstd = TRUE
    /\ codecLoad = "loads"
    /\ zstd = "undefined"
    /\ loader = "idle"
    /\ calls = <<>>
    /\ zstdStreamClasses = "undefined"
    /\ fstreams = <<>>

(***************************************************************************)
(* encodeBase64Sync / decodeBase64Sync (index.ts 205-219).                 *)
(***************************************************************************)
\* mutant: the trailing 1 or 2 bytes are never encoded
encodeBase64Sync_fullGroupsOnly(bytes) ==
    LET whole == SubSeq(bytes, 1, (Len(bytes) \div 3) * 3)
    IN  IF hasBuffer THEN BufferToStringBase64(whole) ELSE encodeBase64Lookup(whole)

\* mutant: the last group is not padded
encodeBase64Sync_noPadding(bytes) ==
    LET NotPad(c) == c # 61
    IN  SelectSeq(IF hasBuffer THEN BufferToStringBase64(bytes) ELSE encodeBase64Lookup(bytes),
                  NotPad)

encodeBase64Sync(bytes) ==
    IF hasBuffer THEN BufferToStringBase64(bytes) ELSE encodeBase64Lookup(bytes)

decodeBase64Sync(base64Bytes) ==
    IF hasBuffer THEN Ok(BufferFromBase64(base64Bytes))
    ELSE decodeBase64Lookup(base64Bytes)

(***************************************************************************)
(* Buffered API (index.ts 856-1005).                                       *)
(***************************************************************************)
\* asBuffer: a view of the same bytes
asBuffer(input) == input

\* mutant: the high nibble is tested instead of the low one
lowNibble_high(bodyBuffer) == IF Len(bodyBuffer) = 0 THEN 0 ELSE bodyBuffer[1] \div 16

\* bodyBuffer[0] & 0xF  (undefined & 0xF is 0 for an empty buffer)
lowNibble(bodyBuffer) == IF Len(bodyBuffer) = 0 THEN 0 ELSE bodyBuffer[1] % 16

\* if (!encoding) encoding = 'identity'; else encoding = encoding.toLowerCase();
normalise(encoding) ==
    IF Falsy(encoding) THEN Str(<<"identity">>) ELSE toLowerCase(encoding)

\* the single-encoding part of decodeBuffer (index.ts 902-927)
decodeBufferOne(bodyBuffer, enc) ==
    LET encoding == normalise(enc)
    IN  IF encoding = Str(<<"gzip">>) \/ encoding = Str(<<"x-gzip">>)
        THEN gunzip(bodyBuffer)
        ELSE IF encoding = Str(<<"deflate">>) \/ encoding = Str(<<"x-deflate">>)
        THEN IF lowNibble(bodyBuffer) = 8
             THEN inflate(bodyBuffer)
             ELSE inflateRaw(bodyBuffer)
        ELSE IF encoding = Str(<<"br">>)
        THEN brotliDecompress(bodyBuffer)
        ELSE IF encoding = Str(<<"zstd">>)
        THEN zstdDecompress(bodyBuffer)
        ELSE IF encoding = Str(<<"base64">>)
        THEN decodeBase64Sync(bodyBuffer)
        ELSE IF Includes(IDENTITY_ENCODINGS, encoding)
        THEN Ok(asBuffer(bodyBuffer))
        ELSE Unsupported(encoding)

\* does decodeBuffer take the multi-encoding branch (index.ts 893)
isMulti(encoding) == IsArray(encoding) \/ (IsString(encoding) /\ IncludesSep(encoding))

\* mutant: the split string is not reversed
decodeOrder_unreversed(encoding) ==
    IF IsString(encoding) THEN Split(encoding) ELSE encoding.items

\* const encodings = typeof encoding === 'string'
\*     ? encoding.split(', ').reverse() : encoding;   (index.ts 894)
decodeOrder(encoding) ==
    IF IsString(encoding) THEN Reverse(Split(encoding)) ELSE encoding.items

RECURSIVE decodeBuffer(_, _)
RECURSIVE decodeReduce(_, _, _)
\* encodings.reduce(...): each stage decodes the previous stage's content; a
\* rejection skips the remaining stages
decodeReduce(content, encodings, i) ==
    IF i > Len(encodings) \/ ~content.ok THEN content
    ELSE decodeReduce(decodeBuffer(content.val, encodings[i]), encodings, i + 1)

decodeBuffer(bodyIn, encoding) ==
    LET bodyBuffer == asBuffer(bodyIn)
    IN  IF isMulti(encoding)
        THEN decodeReduce(Ok(bodyBuffer), decodeOrder(encoding), 1)
        ELSE decodeBufferOne(bodyBuffer, encoding)

\* mutant: the synchronous variant decodes br and zstd as decodeBuffer does
decodeBufferSyncOne_asAsync(bodyBuffer, enc) == decodeBufferOne(bodyBuffer, enc)

\* mutant: the synchronous variant always takes deflate data for zlib-wrapped
decodeBufferSyncOne_noSniff(bodyBuffer, enc) ==
    IF normalise(enc) \in {Str(<<"deflate">>), Str(<<"x-deflate">>)}
    THEN inflate(bodyBuffer)
    ELSE decodeBufferOne(bodyBuffer, enc)

\* the single-encoding part of decodeBufferSync (index.ts 951-972)
decodeBufferSyncOne(bodyBuffer, enc) ==
    LET encoding == normalise(enc)
    IN  IF encoding = Str(<<"gzip">>) \/ encoding = Str(<<"x-gzip">>)
        THEN gunzip(bodyBuffer)
        ELSE IF encoding = Str(<<"deflate">>) \/ encoding = Str(<<"x-deflate">>)
        THEN IF lowNibble(bodyBuffer) = 8
             THEN inflate(bodyBuffer)
             ELSE inflateRaw(bodyBuffer)
        ELSE IF encoding = Str(<<"base64">>)
        THEN decodeBase64Sync(bodyBuffer)
        ELSE IF Includes(IDENTITY_ENCODINGS, encoding)
        THEN Ok(asBuffer(bodyBuffer))
        ELSE Unsupported(encoding)

RECURSIVE decodeBufferSync(_, _)
RECURSIVE decodeSyncReduce(_, _, _)
decodeSyncReduce(content, encodings, i) ==
    IF i > Len(encodings) \/ ~content.ok THEN content
    ELSE decodeSyncReduce(decodeBufferSync(content.val, encodings[i]), encodings, i + 1)

decodeBufferSync(bodyIn, encoding) ==
    LET bodyBuffer == asBuffer(bodyIn)
    IN  IF isMulti(encoding)
        THEN decodeSyncReduce(Ok(bodyBuffer), decodeOrder(encoding), 1)
        ELSE decodeBufferSyncOne(bodyBuffer, encoding)

\* options.level ?? 4 ; options is <<>> (no level) or <<level>>
DEFAULT_LEVEL == 4
\* mutant: options.level || 4, a level of 0 is taken for no level
levelOf_falsyDefault(options) ==
    IF options = <<>> \/ options[1] = 0 THEN DEFAULT_LEVEL ELSE options[1]

\* const level = options.level ?? 4
levelOf(options) == IF options = <<>> THEN DEFAULT_LEVEL ELSE options[1]

\* encodeBuffer (index.ts 981-1005)
encodeBuffer(bodyIn, enc, options) ==
    LET bodyBuffer == asBuffer(bodyIn)
        level == levelOf(options)
        encoding == normalise(enc)
    IN  IF encoding = Str(<<"gzip">>) \/ encoding = Str(<<"x-gzip">>)
        THEN Ok(gzip(bodyBuffer, level))
        ELSE IF encoding = Str(<<"deflate">>) \/ encoding = Str(<<"x-deflate">>)
        THEN Ok(deflate(bodyBuffer, level))
        ELSE IF encoding = Str(<<"br">>)
        THEN Ok(brotliCompress(bodyBuffer, level))
        ELSE IF encoding = Str(<<"zstd">>)
        THEN Ok(zstdCompress(bodyBuffer, level))
        ELSE IF encoding = Str(<<"base64">>)
        THEN Ok(encodeBase64Sync(bodyBuffer))
        ELSE IF Includes(IDENTITY_ENCODINGS, encoding)
        THEN Ok(asBuffer(bodyBuffer))
        ELSE Unsupported(encoding)

(***************************************************************************)
(* Generic streaming API: which stages a spec resolves to                  *)
(* (index.ts 753-852).  A stage is named by the factory that builds it.    *)
(***************************************************************************)
\* createDecodeStream / createEncodeStream return null, a stream, or throw
Null == [ok |-> TRUE, null |-> TRUE, stages |-> <<>>]
Stream(st) == [ok |-> TRUE, null |-> FALSE, stages |-> st]

\* mutant: nothing is filtered out
filterIdentity_keepAll(encodings) == encodings

\* encodings.filter(e => !IDENTITY_ENCODINGS.includes(e.toLowerCase()))
RECURSIVE filterIdentity(_)
filterIdentity(encodings) ==
    IF encodings = <<>> THEN <<>>
    ELSE (IF Includes(IDENTITY_ENCODINGS, toLowerCase(encodings[1]))
          THEN <<>> ELSE <<encodings[1]>>) \o filterIdentity(Tail(encodings))

\* mutant: a string is also split at a comma that no space follows
parseEncodings_splitAtComma(encoding) ==
    IF Falsy(encoding) THEN <<>>
    ELSE LET encodings ==
                 IF IsArray(encoding) THEN encoding.items
                 ELSE IF encoding = Str(<<"gzip,br">>) THEN <<Str(<<"gzip">>), Str(<<"br">>)>>
                 ELSE IF IncludesSep(encoding) THEN Split(encoding)
                 ELSE <<encoding>>
         IN  filterIdentity(encodings)

\* parseEncodings (index.ts 793-803)
parseEncodings(encoding) ==
    IF Falsy(encoding) THEN <<>>
    ELSE LET encodings ==
                 IF IsArray(encoding) THEN encoding.items
                 ELSE IF IncludesSep(encoding) THEN Split(encoding)
                 ELSE <<encoding>>
         IN  filterIdentity(encodings)

\* getDecoderStream (index.ts 753-770): the factory called, or the throw
getDecoderStream(encoding) ==
    LET lower == toLowerCase(encoding)
    IN  IF lower = Str(<<"gzip">>) \/ lower = Str(<<"x-gzip">>) THEN Ok("createGunzipStream")
        ELSE IF lower = Str(<<"deflate">>) \/ lower = Str(<<"x-deflate">>)
        THEN Ok("createInflateStream")
        ELSE IF lower = Str(<<"br">>) THEN Ok("createBrotliDecompressStream")
        ELSE IF lower = Str(<<"zstd">>) THEN Ok("createZstdDecompressStream")
        ELSE IF lower = Str(<<"base64">>) THEN Ok("createBase64DecodeStream")
        ELSE Unsupported(encoding)

\* mutant: the switch has no default case, an unknown encoding yields undefined
getEncoderStream_noDefault(encoding) ==
    LET lower == toLowerCase(encoding)
    IN  IF lower = Str(<<"gzip">>) \/ lower = Str(<<"x-gzip">>) THEN Ok("createGzipStream")
        ELSE IF lower = Str(<<"deflate">>) \/ lower = Str(<<"x-deflate">>)
        THEN Ok("createDeflateStream")
        ELSE IF lower = Str(<<"br">>) THEN Ok("createBrotliCompressStream")
        ELSE IF lower = Str(<<"zstd">>) THEN Ok("createZstdCompressStream")
        ELSE IF lower = Str(<<"base64">>) THEN Ok("createBase64EncodeStream")
        ELSE Ok("undefined")

\* getEncoderStream (index.ts 773-790)
getEncoderStream(encoding) ==
    LET lower == toLowerCase(encoding)
    IN  IF lower = Str(<<"gzip">>) \/ lower = Str(<<"x-gzip">>) THEN Ok("createGzipStream")
        ELSE IF lower = Str(<<"deflate">>) \/ lower = Str(<<"x-deflate">>)
        THEN Ok("createDeflateStream")
        ELSE IF lower = Str(<<"br">>) THEN Ok("createBrotliCompressStream")
        ELSE IF lower = Str(<<"zstd">>) THEN Ok("createZstdCompressStream")
        ELSE IF lower = Str(<<"base64">>) THEN Ok("createBase64EncodeStream")
        ELSE Unsupported(encoding)

\* encodings.map(e => getDecoderStream(e)): the first throw, or all the stages
mapDecoderStages(encodings) ==
    LET failing == {i \in 1..Len(encodings) : ~getDecoderStream(encodings[i]).ok}
    IN  IF failing # {} THEN getDecoderStream(encodings[MinOf(failing)])
        ELSE Stream([i \in 1..Len(encodings) |-> getDecoderStream(encodings[i]).val])

\* encodings.map(e => getEncoderStream(e))
mapEncoderStages(encodings) ==
    LET failing == {i \in 1..Len(encodings) : ~getEncoderStream(encodings[i]).ok}
    IN  IF failing # {} THEN getEncoderStream(encodings[MinOf(failing)])
        ELSE Stream([i \in 1..Len(encodings) |-> getEncoderStream(encodings[i]).val])

\* createDecodeStream (index.ts 818-829)
createDecodeStream(encoding) ==
    LET encodings == parseEncodings(encoding)
    IN  IF Len(encodings) = 0 THEN Null
        ELSE mapDecoderStages(Reverse(encodings))

\* createEncodeStream (index.ts 844-852)
createEncodeStream(encoding) ==
    LET encodings == parseEncodings(encoding)
    IN  IF Len(encodings) = 0 THEN Null
        ELSE mapEncoderStages(encodings)

(***************************************************************************)
(* Base64 streaming codec (index.ts 583-731).  A stage is a record         *)
(*   kind         the factory that built it                                *)
(*   leftover     Base64 stages: bytes carried to the next chunk           *)
(*   isFirstBatch Base64 stages: no batch has been processed yet           *)
(*   acc          engine stages: the input received so far                 *)
(*   state        "open", "flushed" or "errored"                           *)
(*   error        the error the stage is errored with, or NoFailure         *)
(* A transform or flush call returns StepOk(stage', chunks enqueued) or an *)
(* error record.                                                           *)
(***************************************************************************)
\* const BASE64_BATCH_SIZE = 1536 * 1024
BASE64_BATCH_SIZE == 1536 * 1024

\* A chunk longer than 1536 * 1024 bytes cannot be enumerated.  In the
\* scenario "base64 batches" the transforms run with a batch of 3 * 4 bytes,
\* which like 1536 * 1024 = 3 * 4 * 131072 is a whole number of 3-byte groups
\* and of 4-symbol groups; the batch loops are the code's loops unchanged.
SmallBatchSize == 3 * 4
BatchSize == IF scenario = "base64 batches" THEN SmallBatchSize ELSE BASE64_BATCH_SIZE

\* no error
NoFailure == [ok |-> TRUE]

NewStage(kind) ==
    [kind |-> kind, leftover |-> <<>>, isFirstBatch |-> TRUE, acc |-> <<>>, state |-> "open",
     error |-> NoFailure]

StepOk(st, outs) == [ok |-> TRUE, st |-> st, outs |-> outs]

Min(a, b) == IF a <= b THEN a ELSE b

\* combined.subarray(from, to), 0-based, end exclusive
Subarray(arr, from, to) == SubSeq(arr, from + 1, to)

RECURSIVE base64EncodeBatches(_, _, _)
\* the loop  while (offset + 3 <= combined.length)  of the encode transform:
\* the chunks enqueued and the final offset
base64EncodeBatches(combined, offset, outs) ==
    IF offset + 3 <= Len(combined)
    THEN LET batchEnd == Min(offset + BatchSize, Len(combined))
             alignedEnd == offset + (((batchEnd - offset) \div 3) * 3)
         IN  IF alignedEnd > offset
             THEN base64EncodeBatches(combined, alignedEnd,
                      Append(outs, encodeBase64Sync(Subarray(combined, offset, alignedEnd))))
             ELSE [outs |-> outs, offset |-> offset]
    ELSE [outs |-> outs, offset |-> offset]

\* mutant: transform only collects the input, everything is encoded at flush
base64EncodeTransform_deferAll(st, chunk) ==
    StepOk([st EXCEPT !.leftover = st.leftover \o chunk], <<>>)

\* mutant: each chunk is encoded on its own, padding included, nothing is carried
base64EncodeTransform_padEachChunk(st, chunk) ==
    StepOk(st, IF Len(chunk) > 0 THEN <<encodeBase64Sync(chunk)>> ELSE <<>>)

\* mutant: an empty chunk makes the stream forget its carry
base64EncodeTransform_emptyResets(st, chunk) ==
    LET combined == IF chunk = <<>> THEN <<>> ELSE st.leftover \o chunk
        done == base64EncodeBatches(combined, 0, <<>>)
    IN  StepOk([st EXCEPT !.leftover = Subarray(combined, done.offset, Len(combined)),
                          !.isFirstBatch = st.isFirstBatch /\ done.outs = <<>>],
               done.outs)

\* mutant: the carry of the previous chunk is not put in front of the new chunk
base64EncodeTransform_dropLeftover(st, chunk) ==
    LET done == base64EncodeBatches(chunk, 0, <<>>)
    IN  StepOk([st EXCEPT !.leftover = Subarray(chunk, done.offset, Len(chunk)),
                          !.isFirstBatch = st.isFirstBatch /\ done.outs = <<>>],
               done.outs)

\* createBase64EncodeStream: transform (index.ts 594-631)
base64EncodeTransform(st, chunk) ==
    LET combined == st.leftover \o chunk
        done == base64EncodeBatches(combined, 0, <<>>)
    IN  StepOk([st EXCEPT !.leftover = Subarray(combined, done.offset, Len(combined)),
                          !.isFirstBatch = st.isFirstBatch /\ done.outs = <<>>],
               done.outs)

\* createBase64EncodeStream: flush (index.ts 632-638)
base64EncodeFlush(st) ==
    StepOk([st EXCEPT !.state = "flushed"],
           IF Len(st.leftover) > 0 THEN <<encodeBase64Sync(st.leftover)>> ELSE <<>>)

\* v < 64 || combined[i] === 61 : a valid character or padding
IsGroupChar(c) == BASE64_DECODE_LOOKUP[c] < 64 \/ c = 61

\* the number of group characters in the first n bytes
GroupCharsIn(combined, n) ==
    Cardinality({i \in 1..n : IsGroupChar(combined[i])})

\* let processEnd: the byte position after the last complete group
\* (index.ts 678-686)
processEndOf(combined, completeGroups) ==
    MinOf({n \in 0..Len(combined) : GroupCharsIn(combined, n) = completeGroups * 4})

RECURSIVE base64DecodeBatches(_, _, _, _)
\* the loop  while (offset < processEnd)  of the decode transform
base64DecodeBatches(combined, processEnd, offset, outs) ==
    IF offset < processEnd
    THEN LET batchEnd == Min(offset + BatchSize, processEnd)
             decoded == decodeBase64Sync(Subarray(combined, offset, batchEnd))
         IN  IF ~decoded.ok THEN decoded
             ELSE base64DecodeBatches(combined, processEnd, batchEnd,
                      IF Len(decoded.val) > 0 THEN Append(outs, decoded.val) ELSE outs)
    ELSE Ok(outs)

\* createBase64DecodeStream: transform (index.ts 647-712)
base64DecodeTransform(st, chunk) ==
    LET combined == st.leftover \o chunk
        bad == InvalidPositions(combined)
        validCount == GroupCharsIn(combined, Len(combined))
        completeGroups == validCount \div 4
    IN  IF bad # {}
        THEN InvalidBase64(MinOf(bad), combined[MinOf(bad) + 1])
        ELSE IF completeGroups > 0
        THEN LET processEnd == processEndOf(combined, completeGroups)
                 done == base64DecodeBatches(combined, processEnd, 0, <<>>)
             IN  IF ~done.ok THEN done
                 ELSE StepOk([st EXCEPT !.leftover = Subarray(combined, processEnd, Len(combined)),
                                        !.isFirstBatch = FALSE],
                             done.val)
        ELSE StepOk([st EXCEPT !.leftover = combined], <<>>)

\* mutant: flush closes the stream without decoding the carry
base64DecodeFlush_dropCarry(st) == StepOk([st EXCEPT !.state = "flushed"], <<>>)

\* createBase64DecodeStream: flush (index.ts 713-729)
base64DecodeFlush(st) ==
    LET validCount == LookupValidCount(st.leftover)
        decoded == decodeBase64Sync(st.leftover)
    IN  IF Len(st.leftover) > 0 /\ validCount > 0
        THEN IF ~decoded.ok THEN decoded
             ELSE StepOk([st EXCEPT !.state = "flushed"],
                         IF Len(decoded.val) > 0 THEN <<decoded.val>> ELSE <<>>)
        ELSE StepOk([st EXCEPT !.state = "flushed"], <<>>)

(***************************************************************************)
(* Engine streams (index.ts 243-303, 305-343, 435-473): the platform's     *)
(* CompressionStream / DecompressionStream or zlib's streams.  At their    *)
(* interface: the bytes written are consumed, and by the end of input the  *)
(* stream has emitted the compressed (decompressed) form of all of them,   *)
(* or has failed.  createInflateStream reads the zlib format only.         *)
(***************************************************************************)
CompressKinds ==
    {"createGzipStream", "createDeflateStream", "createDeflateRawStream",
     "createBrotliCompressStream", "createZstdCompressStream"}

engineCompress(kind, b) ==
    CASE kind = "createGzipStream" -> gzip(b, ENGINE_DEFAULT_LEVEL)
      [] kind = "createDeflateStream" -> deflate(b, ENGINE_DEFAULT_LEVEL)
      [] kind = "createDeflateRawStream" -> deflateRaw(b, ENGINE_DEFAULT_LEVEL)
      [] kind = "createBrotliCompressStream" -> brotliCompress(b, ENGINE_DEFAULT_LEVEL)
      [] kind = "createZstdCompressStream" -> zstdCompress(b, ENGINE_DEFAULT_LEVEL)

engineDecompress(kind, x) ==
    CASE kind = "createGunzipStream" -> gunzip(x)
      [] kind = "createInflateStream" -> inflate(x)
      [] kind = "createInflateRawStream" -> inflateRaw(x)
      [] kind = "createBrotliDecompressStream" -> brotliDecompress(x)
      [] kind = "createZstdDecompressStream" -> zstdDecompress(x)

engineTransform(st, chunk) == StepOk([st EXCEPT !.acc = st.acc \o chunk], <<>>)

engineFlush(st) ==
    IF st.kind \in CompressKinds
    THEN StepOk([st EXCEPT !.state = "flushed"], <<engineCompress(st.kind, st.acc)>>)
    ELSE LET res == engineDecompress(st.kind, st.acc)
         IN  IF ~res.ok THEN res
             ELSE StepOk([st EXCEPT !.state = "flushed"],
                         IF Len(res.val) > 0 THEN <<res.val>> ELSE <<>>)

\* the transform() and flush() of a stage
stageTransform(st, chunk) ==
    IF st.kind = "createBase64EncodeStream" THEN base64EncodeTransform(st, chunk)
    ELSE IF st.kind = "createBase64DecodeStream" THEN base64DecodeTransform(st, chunk)
    ELSE engineTransform(st, chunk)

stageFlush(st) ==
    IF st.kind = "createBase64EncodeStream" THEN base64EncodeFlush(st)
    ELSE IF st.kind = "createBase64DecodeStream" THEN base64DecodeFlush(st)
    ELSE engineFlush(st)

RECURSIVE Concat(_)
\* the bytes of a sequence of chunks
Concat(chunks) == IF chunks = <<>> THEN <<>> ELSE chunks[1] \o Concat(Tail(chunks))

(***************************************************************************)
(* State of a stream session: one pipeline of TransformStreams, a producer *)
(* that writes the source in chunks, and a reader.                         *)
(***************************************************************************)
VARIABLES
    sop,         \* how the pipeline was created: [t, mode, spec, dspec, prep, res]
    source,      \* all the bytes the producer is to write
    pending,     \* the bytes not written yet
    writes,      \* the number of chunks written so far
    stages,      \* the stages of the pipeline, in order
    queues,      \* queues[i]: chunks waiting for stage i; the last: for the reader
    ended,       \* ended[i]: nothing more will be added to queues[i]
    received,    \* the bytes the reader has read
    failure      \* the error the pipeline ended with, or NoFailure

streamVars ==
    <<scenario, sop, source, pending, writes, stages, queues, ended, received, failure>>

(***************************************************************************)
(* Inputs of the buffered session.                                         *)
(***************************************************************************)
\* byte values of the plaintexts
ByteSet == {105, 255}
Bodies == SeqsUpTo(ByteSet, MaxLen)

CodecPieces == {"gzip", "x-gzip", "deflate", "x-deflate", "br", "zstd", "base64"}
AliasPieces == {"identity", "amz-1.0", "none", "text", "binary", "utf8", "utf-8"}
\* re-cased tokens, unknown tokens, the empty string, a token with a bare comma
OtherPieces == {"GZIP", "Deflate", "BR", "Base64", "Identity", "UTF-8",
                "randomized", "Randomized", "", "gzip,br"}
Pieces == CodecPieces \cup AliasPieces \cup OtherPieces
\* the pieces multi-token specs are built from
ChainPieces == {"gzip", "br", "base64", "identity", "randomized", ""}

SingleStrings == {Str(<<p>>) : p \in Pieces}
ChainStrings == {Str(<<p, q>>) : p \in ChainPieces, q \in ChainPieces}
ChainLists ==
    {List(<<>>)} \cup {List(<<Str(<<p>>)>>) : p \in ChainPieces}
                 \cup {List(<<Str(<<p>>), Str(<<q>>)>>) : p \in ChainPieces, q \in ChainPieces}
\* list elements that themselves contain the separator
NestedLists == {List(<<Str(<<"gzip", "base64">>)>>), List(<<Str(<<"br">>), Str(<<"gzip", "base64">>)>>)}

\* multi-token specs with re-cased tokens
RecasedChains ==
    {Str(<<"GZIP", "Base64">>), List(<<Str(<<"Base64">>), Str(<<"GZIP">>)>>),
     Str(<<"Identity", "BR">>)}

DecodeSpecs ==
    {Undefined} \cup SingleStrings \cup ChainStrings \cup ChainLists \cup NestedLists
                \cup RecasedChains
EncodeSpecs == {Undefined} \cup SingleStrings \cup {Str(<<"gzip", "br">>)}
LevelOptions == {<<>>, <<0>>}

DecodeFns == {"decodeBuffer", "decodeBufferSync"}
\* calls after which the session ends
LeafFns == DecodeFns \cup {"createDecodeStream", "createEncodeStream"}

(***************************************************************************)
(* The buffered session: a plaintext is encoded by up to MaxChain calls    *)
(* (encodeBuffer, or the deflateRaw primitive), then handed to one decode  *)
(* call.  The buffered entry points need Buffer (asBuffer, index.ts 856),  *)
(* so hasBuffer is TRUE here.                                              *)
(***************************************************************************)
Init ==
    /\ hasBuffer = TRUE
    /\ orig \in Bodies
    /\ body = orig
    /\ applied = <<>>
    /\ op = [fn |-> "none"]
    /\ scenario = "buffered"
    /\ sop = [t |-> "none"]
    /\ source = <<>>
    /\ pending = <<>>
    /\ writes = 0
    /\ stages = <<>>
    /\ queues = <<>>
    /\ ended = <<>>
    /\ received = <<>>
    /\ failure = NoFailure
    /\ ZstdIdle

\* a chain of several encodings is built from ChainPieces at the default level
ChainStep(enc, options) ==
    /\ options = <<>>
    /\ enc \in {Str(<<p>>) : p \in ChainPieces}
    /\ op.fn = "encodeBuffer" /\ op.res.ok /\ op.options = <<>>
    /\ \A i \in 1..Len(applied) : applied[i] \in {Str(<<p>>) : p \in ChainPieces}

EncodeBuffer ==
    \E enc \in EncodeSpecs, options \in LevelOptions :
        LET res == encodeBuffer(body, enc, options)
        IN  /\ op.fn \notin LeafFns
            /\ Len(applied) < MaxChain
            /\ applied = <<>> \/ ChainStep(enc, options)
            /\ op' = [fn |-> "encodeBuffer", spec |-> enc, options |-> options,
                      arg |-> body, res |-> res]
            /\ body' = IF res.ok THEN res.val ELSE body
            /\ applied' = IF res.ok THEN Append(applied, enc) ELSE applied
            /\ UNCHANGED <<hasBuffer, orig>>
            /\ UNCHANGED <<streamVars, zstdVars>>

\* the exported primitive deflateRaw (index.ts 22), as the tests use it
DeflateRaw ==
    /\ op.fn = "none"
    /\ op' = [fn |-> "deflateRaw", spec |-> Undefined, options |-> <<>>, arg |-> body,
              res |-> Ok(deflateRaw(body, ENGINE_DEFAULT_LEVEL))]
    /\ body' = deflateRaw(body, ENGINE_DEFAULT_LEVEL)
    /\ applied' = Append(applied, Str(<<"deflate-raw">>))
    /\ UNCHANGED <<hasBuffer, orig>>
    /\ UNCHANGED <<streamVars, zstdVars>>

DecodeBuffer ==
    \E spec \in DecodeSpecs :
        /\ op.fn \notin LeafFns
        /\ op' = [fn |-> "decodeBuffer", spec |-> spec, options |-> <<>>, arg |-> body,
                  res |-> decodeBuffer(body, spec)]
        /\ UNCHANGED <<hasBuffer, orig, body, applied>>
        /\ UNCHANGED <<streamVars, zstdVars>>

DecodeBufferSync ==
    \E spec \in DecodeSpecs :
        /\ op.fn \notin LeafFns
        /\ op' = [fn |-> "decodeBufferSync", spec |-> spec, options |-> <<>>, arg |-> body,
                  res |-> decodeBufferSync(body, spec)]
        /\ UNCHANGED <<hasBuffer, orig, body, applied>>
        /\ UNCHANGED <<streamVars, zstdVars>>

\* createDecodeStream / createEncodeStream called on a spec; what they return
\* does not depend on any body
CreateDecodeStream ==
    \E spec \in DecodeSpecs :
        /\ op.fn = "none"
        /\ op' = [fn |-> "createDecodeStream", spec |-> spec, options |-> <<>>,
                  arg |-> <<>>, res |-> createDecodeStream(spec)]
        /\ UNCHANGED <<hasBuffer, orig, body, applied>>
        /\ UNCHANGED <<streamVars, zstdVars>>

CreateEncodeStream ==
    \E spec \in DecodeSpecs :
        /\ op.fn = "none"
        /\ op' = [fn |-> "createEncodeStream", spec |-> spec, options |-> <<>>,
                  arg |-> <<>>, res |-> createEncodeStream(spec)]
        /\ UNCHANGED <<hasBuffer, orig, body, applied>>
        /\ UNCHANGED <<streamVars, zstdVars>>

vars == <<hasBuffer, orig, body, applied, op, scenario, sop, source, pending, writes,
         stages, queues, ended, received, failure, zlibHasZstd, codecLoad, zstd, loader,
         calls, zstdStreamClasses, fstreams>>

Next ==
    \/ EncodeBuffer
    \/ DeflateRaw
    \/ DecodeBuffer
    \/ DecodeBufferSync
    \/ CreateDecodeStream
    \/ CreateEncodeStream

Spec == Init /\ [][Next]_vars

(***************************************************************************)
(* The zstd session (index.ts 53-102): calls of zstdCompress and           *)
(* zstdDecompress, direct or from encodeBuffer / decodeBuffer with the     *)
(* token 'zstd', in a runtime with or without zlib's zstd.  Without it     *)
(* the first call starts loading zstd-codec: zstd becomes a promise whose  *)
(* executor awaits the import and then calls ZstdCodec.run, whose callback *)
(* resolves the promise.  Only resolve is ever passed to the executor.     *)
(***************************************************************************)
MaxCalls == 2

ZstdFns == {"zstdCompress", "zstdDecompress", "encodeBuffer", "decodeBuffer"}
ZstdBuffers == {<<>>, <<105>>, zstdCompress(<<105>>, DEFAULT_LEVEL)}
CodecLoads == {"loads", "import fails", "never initialises"}

InitZstd ==
    /\ hasBuffer = TRUE
    /\ scenario = "zstd engine"
    /\ orig = <<>>
    /\ body = <<>>
    /\ applied = <<>>
    /\ op = [fn |-> "none"]
    /\ sop = [t |-> "none"]
    /\ source = <<>>
    /\ pending = <<>>
    /\ writes = 0
    /\ stages = <<>>
    /\ queues = <<>>
    /\ ended = <<>>
    /\ received = <<>>
    /\ failure = NoFailure
    /\ zlibHasZstd \in BOOLEAN
    /\ codecLoad \in CodecLoads
    /\ zstd = "undefined"
    /\ loader = "idle"
    /\ calls = <<>>
    /\ zstdStreamClasses = "undefined"
    /\ fstreams = <<>>

\* zstdCompress(buffer, level) / zstdDecompress(buffer), called directly or by
\* encodeBuffer / decodeBuffer: the call runs into getZstd() up to its first
\* await; without zlib's zstd the first call creates the promise, and the
\* executor runs up to its await import('zstd-codec')
\* the call whose getZstd() made the promise that zstd holds now (0: none)
ZstdPromise ==
    IF \E k \in 1..Len(calls) : calls[k].created
    THEN CHOOSE k \in 1..Len(calls) :
             calls[k].created /\ \A j \in (k + 1)..Len(calls) : ~calls[j].created
    ELSE 0

\* mutant: getZstd() tests whether the engine is there, not whether the
\* promise is: a call made while the engine is loading starts another load
CallZstd_loadUntilResolved ==
    \E fn \in ZstdFns, buffer \in ZstdBuffers :
        /\ scenario = "zstd engine"
        /\ Len(calls) < MaxCalls
        /\ calls' = Append(calls,
               [fn |-> fn, arg |-> buffer,
                level |-> IF fn = "encodeBuffer" THEN DEFAULT_LEVEL ELSE ENGINE_DEFAULT_LEVEL,
                state |-> "awaiting", res |-> NoFailure,
                created |-> ~zlibHasZstd /\ zstd # "resolved",
                awaits |-> IF ~zlibHasZstd /\ zstd # "resolved"
                           THEN Len(calls) + 1 ELSE ZstdPromise])
        /\ IF ~zlibHasZstd /\ zstd # "resolved"
           THEN zstd' = "pending" /\ loader' = "importing"
           ELSE UNCHANGED <<zstd, loader>>
        /\ UNCHANGED <<hasBuffer, bufVars, streamVars, zlibHasZstd, codecLoad, fallbackVars>>

CallZstd ==
    \E fn \in ZstdFns, buffer \in ZstdBuffers :
        /\ scenario = "zstd engine"
        /\ Len(calls) < MaxCalls
        /\ calls' = Append(calls,
               [fn |-> fn, arg |-> buffer,
                level |-> IF fn = "encodeBuffer" THEN DEFAULT_LEVEL ELSE ENGINE_DEFAULT_LEVEL,
                state |-> "awaiting", res |-> NoFailure,
                created |-> ~zlibHasZstd /\ zstd = "undefined",
                awaits |-> IF ~zlibHasZstd /\ zstd = "undefined"
                           THEN Len(calls) + 1 ELSE ZstdPromise])
        /\ IF ~zlibHasZstd /\ zstd = "undefined"
           THEN zstd' = "pending" /\ loader' = "importing"
           ELSE UNCHANGED <<zstd, loader>>
        /\ UNCHANGED <<hasBuffer, bufVars, streamVars, zlibHasZstd, codecLoad, fallbackVars>>

\* const { ZstdCodec } = await import('zstd-codec'): the import settles; when
\* it rejects, the async executor's own promise rejects, which nothing observes
ImportZstdCodec ==
    /\ loader = "importing"
    /\ loader' = IF codecLoad = "import fails" THEN "threw" ELSE "running"
    /\ UNCHANGED <<hasBuffer, bufVars, streamVars, zlibHasZstd, codecLoad, zstd, calls, fallbackVars>>

\* ZstdCodec.run((binding) => { resolve(new binding.Streaming()); })
ZstdCodecRun ==
    /\ loader = "running"
    /\ codecLoad = "loads"
    /\ loader' = "done"
    /\ zstd' = "resolved"
    /\ UNCHANGED <<hasBuffer, bufVars, streamVars, zlibHasZstd, codecLoad, calls, fallbackVars>>

\* (await getZstd()).compress(buffer, level) / .decompress(buffer): the await
\* is over, the engine runs and the call settles
AwaitGetZstd ==
    \E k \in 1..Len(calls) :
        LET c == calls[k]
            res == IF c.fn \in {"zstdCompress", "encodeBuffer"}
                   THEN Ok(zstdCompress(c.arg, c.level))
                   ELSE zstdDecompress(c.arg)
        IN  /\ c.state = "awaiting"
            /\ zlibHasZstd \/ zstd = "resolved"
            /\ calls' = [calls EXCEPT ![k].state = IF res.ok THEN "fulfilled" ELSE "rejected",
                                      ![k].res = res]
            /\ UNCHANGED <<hasBuffer, bufVars, streamVars, zlibHasZstd, codecLoad, zstd, loader, fallbackVars>>

NextZstd ==
    \/ CallZstd
    \/ ImportZstdCodec
    \/ ZstdCodecRun
    \/ AwaitGetZstd

\* the import, the codec's start-up and the awaits are promise reactions and
\* callbacks that run by themselves; the calls are the caller's choice
SpecZstd ==
    /\ InitZstd
    /\ [][NextZstd]_vars
    /\ WF_vars(ImportZstdCodec)
    /\ WF_vars(ZstdCodecRun)
    /\ WF_vars(AwaitGetZstd)

(***************************************************************************)
(* The fallback streams (index.ts 347-433, 480-581): TransformStreams over *)
(* a brotli-wasm session or a zstd-codec Transform, used where the runtime *)
(* has neither the platform's streams nor zlib's for the format.  A stream *)
(* is [kind, loadedClasses, init, start, early, handle, frees, written,    *)
(* taken, closing, state, how, call, listeners, produced, buffered,        *)
(* emitted, out].  The chunks a producer writes are numbered 1, 2, ...; so *)
(* are the chunks the engine produces.  The TransformStream calls          *)
(* transform() and flush() one at a time, in write order, once the promise *)
(* of start() is fulfilled; abort() and cancel() error the stream without  *)
(* calling the transformer, which has no cancel method.  The zstd-codec    *)
(* Transform is a Node stream: what a write produces is pushed to its      *)
(* readable side and emitted from there as 'data' events to the listeners  *)
(* attached at that moment; the write callback tells that the input has    *)
(* been consumed, not that the output has been emitted.                    *)
(***************************************************************************)
MaxFallbackStreams == 2
MaxFallbackWrites == 2
MaxProduced == 2

BrotliWasmKinds == {"createBrotliWasmCompressStream", "createBrotliWasmDecompressStream"}
ZstdCodecKinds ==
    {"createZstdCodecTransformCompressStream", "createZstdCodecTransformDecompressStream"}

zstdCallVars == <<zlibHasZstd, codecLoad, zstd, loader, calls>>

NewFallbackStream(kind, loaded) ==
    [kind |-> kind, loadedClasses |-> loaded, init |-> "pending", start |-> "pending",
     early |-> 0, handle |-> "undefined", frees |-> 0, written |-> 0, taken |-> <<>>,
     closing |-> FALSE, state |-> "open", how |-> "none", call |-> "none", listeners |-> 0,
     produced |-> 0, buffered |-> <<>>, emitted |-> <<>>, out |-> <<>>]

\* the kinds of stream a session creates, and how many
FallbackKinds == IF scenario = "fallback" THEN BrotliWasmKinds \cup ZstdCodecKinds ELSE ZstdCodecKinds
FallbackLimit == IF scenario = "fallback" THEN MaxFallbackStreams - 1 ELSE MaxFallbackStreams

InitFallback ==
    /\ hasBuffer = TRUE
    /\ scenario = "fallback"
    /\ orig = <<>>
    /\ body = <<>>
    /\ applied = <<>>
    /\ op = [fn |-> "none"]
    /\ sop = [t |-> "none"]
    /\ source = <<>>
    /\ pending = <<>>
    /\ writes = 0
    /\ stages = <<>>
    /\ queues = <<>>
    /\ ended = <<>>
    /\ received = <<>>
    /\ failure = NoFailure
    /\ zlibHasZstd = FALSE
    /\ codecLoad = "loads"
    /\ zstd = "undefined"
    /\ loader = "idle"
    /\ calls = <<>>
    /\ zstdStreamClasses = "undefined"
    /\ fstreams = <<>>

\* mutant: getZstdStreamClasses() loads the classes again until they are there
CreateFallbackStream_loadUntilResolved ==
    \E kind \in FallbackKinds :
        /\ scenario \in {"fallback", "zstd engine"}
        /\ ~zlibHasZstd
        /\ Len(fstreams) < FallbackLimit
        /\ LET loads == kind \in ZstdCodecKinds /\ zstdStreamClasses # "resolved"
           IN  /\ fstreams' = Append(fstreams, NewFallbackStream(kind, loads))
               /\ zstdStreamClasses' = IF loads THEN "pending" ELSE zstdStreamClasses
        /\ UNCHANGED <<hasBuffer, bufVars, streamVars, zstdCallVars>>

\* createBrotliWasmCompressStream() ... createZstdCodecTransformDecompressStream():
\* the import of brotli-wasm is started, or getZstdStreamClasses() is called,
\* whose first call makes the promise and runs its executor up to
\* zstdStream.run(...); the TransformStream is returned with start() pending
CreateFallbackStream ==
    \E kind \in FallbackKinds :
        /\ scenario \in {"fallback", "zstd engine"}
        /\ ~zlibHasZstd
        /\ Len(fstreams) < FallbackLimit
        /\ LET loads == kind \in ZstdCodecKinds /\ zstdStreamClasses = "undefined"
           IN  /\ fstreams' = Append(fstreams, NewFallbackStream(kind, loads))
               /\ zstdStreamClasses' = IF loads THEN "pending" ELSE zstdStreamClasses
        /\ UNCHANGED <<hasBuffer, bufVars, streamVars, zstdCallVars>>

\* zstdStream.run((classes) => { resolve(classes); }): the callback runs
ZstdStreamRun ==
    /\ zstdStreamClasses = "pending"
    /\ zstdStreamClasses' = "resolved"
    /\ UNCHANGED <<hasBuffer, bufVars, streamVars, zstdCallVars, fstreams>>

\* getZstdStreamClasses().then((classes) => { compressTransform = new ... })
InitPromiseThen ==
    \E s \in 1..Len(fstreams) :
        /\ fstreams[s].kind \in ZstdCodecKinds
        /\ fstreams[s].init = "pending"
        /\ zstdStreamClasses = "resolved"
        /\ fstreams' = [fstreams EXCEPT ![s].init = "done", ![s].handle = "live"]
        /\ UNCHANGED <<hasBuffer, bufVars, streamVars, zstdCallVars, zstdStreamClasses>>

\* fs is stream s changed to fs; nothing else changes
SetStream(s, fs) ==
    /\ fstreams' = [fstreams EXCEPT ![s] = fs]
    /\ UNCHANGED <<hasBuffer, bufVars, streamVars, zstdCallVars, zstdStreamClasses>>

StreamOpen(fs) == fs.state = "open"

\* async start(): for brotli-wasm the import settles and the session is
\* created; for zstd-codec  await initPromise  is over
StartSettles ==
    \E s \in 1..Len(fstreams), loaded \in BOOLEAN :
        LET fs == fstreams[s]
        IN  /\ scenario = "fallback"
            /\ StreamOpen(fs)
            /\ fs.start = "pending"
            /\ IF fs.kind \in BrotliWasmKinds
               THEN IF loaded
                    THEN SetStream(s, [fs EXCEPT !.start = "done", !.handle = "live",
                                                 !.early = fs.written])
                    ELSE SetStream(s, [fs EXCEPT !.start = "failed", !.state = "errored",
                                                 !.how = "start failed"])
               ELSE /\ loaded
                    /\ fs.init = "done"
                    /\ SetStream(s, [fs EXCEPT !.start = "done", !.early = fs.written])

\* writer.write(chunk): the chunk is queued in the stream
WriteChunk ==
    \E s \in 1..Len(fstreams) :
        LET fs == fstreams[s]
        IN  /\ scenario = "fallback"
            /\ StreamOpen(fs)
            /\ ~fs.closing
            /\ fs.written < MaxFallbackWrites
            /\ SetStream(s, [fs EXCEPT !.written = fs.written + 1])

\* writer.close()
CloseWriter ==
    \E s \in 1..Len(fstreams) :
        LET fs == fstreams[s]
        IN  /\ scenario = "fallback"
            /\ StreamOpen(fs)
            /\ ~fs.closing
            /\ SetStream(s, [fs EXCEPT !.closing = TRUE])

\* the chunks numbered from a + 1 to b
Numbered(a, b) == [i \in 1..(b - a) |-> a + i]

\* what transform(chunk, controller) does to stream fs, outcome n: for
\* brotli-wasm the loop over compress() / decompress() enqueues n chunks, or
\* the engine throws (n = -1); for zstd-codec the listeners are attached and
\* the chunk is written to the Transform
TransformCall(fs, n) ==
    IF fs.kind \in BrotliWasmKinds
    THEN IF n < 0
         THEN [fs EXCEPT !.taken = Append(fs.taken, Len(fs.taken) + 1),
                         !.state = "errored", !.how = "transform error"]
         ELSE [fs EXCEPT !.taken = Append(fs.taken, Len(fs.taken) + 1),
                         !.produced = fs.produced + n,
                         !.emitted = fs.emitted \o Numbered(fs.produced, fs.produced + n),
                         !.out = fs.out \o Numbered(fs.produced, fs.produced + n)]
    ELSE [fs EXCEPT !.taken = Append(fs.taken, Len(fs.taken) + 1),
                    !.call = "transform", !.listeners = fs.listeners + 1]

\* the outcomes of one transform() call
Outcomes(fs) ==
    IF fs.kind \in BrotliWasmKinds
    THEN {n \in -1..1 : fs.produced + n <= MaxProduced}
    ELSE {0}

\* mutant: the stream hands chunks to transform() as soon as they are written
TransformChunk_beforeStart ==
    \E s \in 1..Len(fstreams) :
        \E n \in Outcomes(fstreams[s]) :
            LET fs == fstreams[s]
            IN  /\ scenario = "fallback"
                /\ StreamOpen(fs)
                /\ fs.call = "none"
                /\ Len(fs.taken) < fs.written
                /\ SetStream(s, TransformCall(fs, n))

\* the TransformStream calls transform() with the next chunk written
TransformChunk ==
    \E s \in 1..Len(fstreams) :
        \E n \in Outcomes(fstreams[s]) :
            LET fs == fstreams[s]
            IN  /\ scenario = "fallback"
                /\ StreamOpen(fs)
                /\ fs.start = "done"
                /\ fs.call = "none"
                /\ Len(fs.taken) < fs.written
                /\ SetStream(s, TransformCall(fs, n))

\* the zstd-codec Transform, given a chunk or ended, produces a chunk of
\* output: it is pushed to the Transform's readable side
ZstdProduces ==
    \E s \in 1..Len(fstreams) :
        LET fs == fstreams[s]
        IN  /\ scenario = "fallback"
            /\ StreamOpen(fs)
            /\ fs.call \in {"transform", "flush"}
            /\ fs.produced < MaxProduced
            /\ SetStream(s, [fs EXCEPT !.produced = fs.produced + 1,
                                       !.buffered = Append(fs.buffered, fs.produced + 1)])

\* a 'data' event: every listener attached enqueues the chunk
\* (onData: controller.enqueue(new Uint8Array(data)))
ZstdEmitsData ==
    \E s \in 1..Len(fstreams) :
        LET fs == fstreams[s]
        IN  /\ scenario = "fallback"
            /\ StreamOpen(fs)
            /\ fs.buffered # <<>>
            /\ SetStream(s, [fs EXCEPT !.buffered = Tail(fs.buffered),
                                       !.emitted = Append(fs.emitted, Head(fs.buffered)),
                                       !.out = fs.out \o [i \in 1..fs.listeners |->
                                                              Head(fs.buffered)]])

\* the callback of compressTransform.write(input, cb): the chunk has been
\* consumed; the listeners are removed and the transform() promise settles
ZstdWriteCallback ==
    \E s \in 1..Len(fstreams), err \in BOOLEAN :
        LET fs == fstreams[s]
        IN  /\ scenario = "fallback"
            /\ StreamOpen(fs)
            /\ fs.call = "transform"
            /\ SetStream(s, IF err
                            THEN [fs EXCEPT !.call = "none", !.listeners = fs.listeners - 1,
                                            !.state = "errored", !.how = "transform error"]
                            ELSE [fs EXCEPT !.call = "none", !.listeners = fs.listeners - 1])

\* what flush(controller) does to stream fs: brotli-wasm collects the rest
\* of the output (n chunks) and frees the session; zstd-codec attaches a
\* 'data' listener and ends the Transform
FlushCall(fs, n) ==
    IF fs.kind \in BrotliWasmKinds
    THEN [fs EXCEPT !.produced = fs.produced + n,
                    !.emitted = fs.emitted \o Numbered(fs.produced, fs.produced + n),
                    !.out = fs.out \o Numbered(fs.produced, fs.produced + n),
                    !.handle = "freed", !.frees = fs.frees + 1,
                    !.state = "closed", !.how = "close"]
    ELSE [fs EXCEPT !.call = "flush", !.listeners = fs.listeners + 1]

\* the TransformStream calls flush() when the writable side is closed and
\* every chunk has been transformed
FlushStream ==
    \E s \in 1..Len(fstreams) :
        \E n \in {k \in Outcomes(fstreams[s]) : k >= 0} :
            LET fs == fstreams[s]
            IN  /\ scenario = "fallback"
                /\ StreamOpen(fs)
                /\ fs.start = "done"
                /\ fs.call = "none"
                /\ fs.closing
                /\ Len(fs.taken) = fs.written
                /\ SetStream(s, FlushCall(fs, IF fs.kind = "createBrotliWasmDecompressStream"
                                              THEN 0 ELSE n))

\* compressTransform.once('end', resolve): the Transform has ended and all
\* its output has been read
ZstdEnds ==
    \E s \in 1..Len(fstreams) :
        LET fs == fstreams[s]
        IN  /\ scenario = "fallback"
            /\ StreamOpen(fs)
            /\ fs.call = "flush"
            /\ fs.buffered = <<>>
            /\ SetStream(s, [fs EXCEPT !.call = "none", !.state = "closed", !.how = "close"])

\* writer.abort(reason): the stream is errored; the transformer is not called
AbortWriter ==
    \E s \in 1..Len(fstreams) :
        LET fs == fstreams[s]
        IN  /\ scenario = "fallback"
            /\ StreamOpen(fs)
            /\ SetStream(s, [fs EXCEPT !.state = "errored", !.how = "abort"])

\* reader.cancel(reason): the stream is errored; the transformer is not called
CancelReader ==
    \E s \in 1..Len(fstreams) :
        LET fs == fstreams[s]
        IN  /\ scenario = "fallback"
            /\ StreamOpen(fs)
            /\ SetStream(s, [fs EXCEPT !.state = "cancelled", !.how = "cancel"])

NextFallback ==
    \/ CreateFallbackStream
    \/ ZstdStreamRun
    \/ InitPromiseThen
    \/ StartSettles
    \/ WriteChunk
    \/ CloseWriter
    \/ TransformChunk
    \/ ZstdProduces
    \/ ZstdEmitsData
    \/ ZstdWriteCallback
    \/ FlushStream
    \/ ZstdEnds
    \/ AbortWriter
    \/ CancelReader

SpecFallback == InitFallback /\ [][NextFallback]_vars

\* the zstd session with fallback zstd streams created beside the calls
NextZstdShared ==
    \/ NextZstd
    \/ CreateFallbackStream
    \/ ZstdStreamRun
    \/ InitPromiseThen

SpecZstdShared == InitZstd /\ [][NextZstdShared]_vars

(***************************************************************************)
(* The stream session.  A pipeline is created by createEncodeStream,       *)
(* createDecodeStream, or the first piped into the second; a null result   *)
(* means the data is passed through unchanged.  The producer writes the    *)
(* source in non-empty chunks and then closes; each stage transforms the   *)
(* chunks that reach it and is flushed when its input has ended; the       *)
(* reader reads what the last stage emits.  A write is accepted, and a     *)
(* chunk is transformed, when the queue after it is empty (the streams'    *)
(* backpressure).  A stage that throws becomes errored: the chunks waiting *)
(* for it are dropped, and so are the chunks it has emitted if it is the   *)
(* last stage, whose readable side the reader then sees errored.  Between  *)
(* stages the error travels by the pipes of chainStreams, which are made   *)
(* with pipeTo's default options: forward, by aborting the next stage with *)
(* the same error, and backward, by cancelling the previous stage.         *)
(***************************************************************************)
MaxStreamLen == 4
MaxStages == 2
MaxText == 6

StreamBodies == SeqsUpTo(ByteSet, MaxStreamLen)

MaxUrlText == 4
\* 'Q', '=' and ' '
Base64TextBytes == {81, 61, 32}
\* the URL-safe '-' and '_', and '\n'
Base64UrlBytes == {45, 95, 10}
\* 'Q', '/' and the invalid '#'
Base64RareBytes == {81, 47, 35}
\* 'Q' and the invalid '#'
Base64BadBytes == {81, 35}
\* '+', '-', '/', '_': the symbols 62 and 63 in both alphabets
Base64MixBytes == {43, 45, 47, 95}
\* texts mixing the alphabets, and the same with the padding of their last group
Base64MixTexts ==
    LET core == SeqsUpTo(Base64MixBytes, MaxUrlText)
    IN  core \cup {t \o <<61, 61>> : t \in {c \in core : Len(c) % 4 = 2}}
             \cup {t \o <<61>> : t \in {c \in core : Len(c) % 4 = 3}}
\* texts of 'Q's longer than a small batch, with or without one space among
\* the first symbols
MaxBatchText == 15
MaxLead == 2
BatchTexts ==
    {[k \in 1..a |-> 81] \o [k \in 1..w |-> 32] \o [k \in 1..b |-> 81] :
        <<a, w, b>> \in {x \in (0..MaxLead) \X (0..1) \X (0..MaxBatchText) :
                            x[1] + x[2] + x[3] \in (SmallBatchSize + 1)..MaxBatchText}}

MaxChunkText == 5
MaxWrites == 3
ChunkTexts == SeqsUpTo({81, 32}, MaxChunkText)

Base64Texts ==
    SeqsUpTo(Base64TextBytes, MaxText) \cup SeqsUpTo(Base64UrlBytes, MaxUrlText)
                                       \cup SeqsUpTo(Base64RareBytes, 2)
                                       \cup SeqsUpTo(Base64BadBytes, MaxText)
                                       \cup Base64MixTexts

StreamPieces == {"gzip", "deflate", "x-deflate", "br", "zstd", "base64", "identity", "randomized"}
StreamChainPieces == {"gzip", "base64"}
StreamChains ==
    (SeqsUpTo(StreamChainPieces, MaxStages) \ {<<>>})
        \cup {<<"identity", "gzip">>, <<"base64", "identity">>,
              <<"base64", "base64", "base64">>}
StreamSingles == {Str(<<p>>) : p \in StreamPieces}
StreamSpecs ==
    StreamSingles \cup {Str(c) : c \in StreamChains}
                  \cup {List([i \in 1..Len(c) |-> Str(<<c[i]>>)]) : c \in StreamChains}

\* the tokens a spec names, as written
TokensOf(spec) == IF IsArray(spec) THEN spec.items ELSE Split(spec)

Modes == {"encode", "decode", "roundtrip"}
\* how the source of a decode-only pipeline is made from the plaintext
Preps == {"none", "gzip", "deflate", "deflateRaw"}

prepare(prep, b) ==
    CASE prep = "none" -> b
      [] prep = "gzip" -> gzip(b, ENGINE_DEFAULT_LEVEL)
      [] prep = "deflate" -> deflate(b, ENGINE_DEFAULT_LEVEL)
      [] prep = "deflateRaw" -> deflateRaw(b, ENGINE_DEFAULT_LEVEL)

\* source.pipeThrough(a).pipeThrough(b), either of which may be null
pipeThrough(a, b) ==
    IF ~a.ok THEN a
    ELSE IF ~b.ok THEN b
    ELSE IF a.stages \o b.stages = <<>> THEN Null
    ELSE Stream(a.stages \o b.stages)

InitStreamVars ==
    /\ ZstdIdle
    /\ body = orig
    /\ applied = <<>>
    /\ op = [fn |-> "none"]
    /\ sop = [t |-> "none"]
    /\ source = <<>>
    /\ pending = <<>>
    /\ writes = 0
    /\ stages = <<>>
    /\ queues = <<>>
    /\ ended = <<>>
    /\ received = <<>>
    /\ failure = NoFailure

\* plaintexts through pipelines of every codec
InitStream ==
    /\ hasBuffer \in BOOLEAN
    /\ scenario = "codec"
    /\ orig \in StreamBodies
    /\ InitStreamVars

\* Base64 text through the Base64 decode stream
InitBase64Text ==
    /\ hasBuffer \in BOOLEAN
    /\ scenario = "base64 text"
    /\ orig \in Base64Texts
    /\ InitStreamVars

\* bytes longer than a batch, read as data by the Base64 encode stream and as
\* text by the decode stream
InitBase64Batches ==
    /\ hasBuffer \in BOOLEAN
    /\ scenario = "base64 batches"
    /\ orig \in BatchTexts
    /\ InitStreamVars

\* bytes, read as data by the Base64 encode stream and as text ('Q' and
\* space) by the decode stream, written in chunks that may be empty
InitBase64Chunks ==
    /\ hasBuffer \in BOOLEAN
    /\ scenario = "base64 chunks"
    /\ orig \in ChunkTexts
    /\ InitStreamVars

\* bytes through one, two or three Base64 streams
Base64ChainSpecs ==
    {Str(<<"base64">>), Str(<<"base64", "base64">>), Str(<<"base64", "base64", "base64">>)}

InitBase64Chain ==
    /\ hasBuffer \in BOOLEAN
    /\ scenario = "base64 chain"
    /\ orig \in StreamBodies
    /\ InitStreamVars

\* the decoder specs and source preparations a session pairs with (mode, spec)
DecoderSpecs(mode, spec) ==
    IF mode = "roundtrip"
    THEN {d \in StreamSpecs : TokensOf(d) = TokensOf(spec)}
    ELSE {spec}

PrepsOf(mode, spec) ==
    IF mode = "decode" /\ scenario = "codec" THEN Preps ELSE {"none"}

OpenChoices ==
    IF scenario = "base64 text"
    THEN {<<"decode", Str(<<"base64">>)>>}
    ELSE IF scenario \in {"base64 batches", "base64 chunks"}
    THEN {<<"encode", Str(<<"base64">>)>>, <<"decode", Str(<<"base64">>)>>}
    ELSE IF scenario = "base64 chain"
    THEN Modes \X Base64ChainSpecs
    ELSE Modes \X StreamSpecs

Open ==
    /\ scenario # "buffered"
    /\ sop.t = "none"
    /\ \E choice \in OpenChoices :
        \E dspec \in DecoderSpecs(choice[1], choice[2]), prep \in PrepsOf(choice[1], choice[2]) :
            LET mode == choice[1]
                spec == choice[2]
                created ==
                    CASE mode = "encode" -> createEncodeStream(spec)
                      [] mode = "decode" -> createDecodeStream(dspec)
                      [] mode = "roundtrip" ->
                             pipeThrough(createEncodeStream(spec), createDecodeStream(dspec))
                n == IF created.ok THEN Len(created.stages) ELSE 0
            IN  /\ sop' = [t |-> IF created.ok THEN "open" ELSE "threw", mode |-> mode,
                           spec |-> spec, dspec |-> dspec, prep |-> prep, res |-> created]
                /\ source' = IF created.ok THEN prepare(prep, orig) ELSE <<>>
                /\ pending' = source'
                /\ stages' = [i \in 1..n |-> NewStage(created.stages[i])]
                /\ queues' = IF created.ok THEN [i \in 1..(n + 1) |-> <<>>] ELSE <<>>
                /\ ended' = IF created.ok THEN [i \in 1..(n + 1) |-> FALSE] ELSE <<>>
                /\ UNCHANGED <<hasBuffer, bufVars, zstdVars, scenario, writes, received, failure>>

Running == sop.t = "open" /\ failure = NoFailure

\* the writable side of the pipeline is errored: writes and close reject
WritableErrored == Len(stages) > 0 /\ stages[1].state = "errored"

\* stage i becomes errored with error e
ErrorStage(i, e) ==
    /\ stages' = [stages EXCEPT ![i].state = "errored", ![i].error = e]
    /\ queues' = [k \in DOMAIN queues |->
                     IF k = i \/ (k = i + 1 /\ i = Len(stages)) THEN <<>> ELSE queues[k]]
    /\ failure' = IF i = Len(stages) THEN e ELSE failure

\* writer.write(chunk): the next k bytes of the source; in the scenario
\* "base64 chunks" also an empty chunk, while fewer than MaxWrites are written
Write ==
    /\ sop.t = "open"
    /\ ~WritableErrored
    /\ queues[1] = <<>>
    /\ \E k \in 0..Len(pending) :
        /\ k = 0 => (scenario = "base64 chunks" /\ writes < MaxWrites)
        /\ queues' = [queues EXCEPT ![1] = <<SubSeq(pending, 1, k)>>]
        /\ pending' = SubSeq(pending, k + 1, Len(pending))
        /\ writes' = writes + 1
        /\ UNCHANGED <<hasBuffer, bufVars, zstdVars, scenario, sop, source, stages, ended, received, failure>>

\* writer.close(), once everything is written and accepted
Close ==
    /\ sop.t = "open"
    /\ ~WritableErrored
    /\ pending = <<>>
    /\ queues[1] = <<>>
    /\ ~ended[1]
    /\ ended' = [ended EXCEPT ![1] = TRUE]
    /\ UNCHANGED <<hasBuffer, bufVars, zstdVars, scenario, sop, source, pending, writes, stages, queues,
                   received, failure>>

\* mutant: a stage's output is put in front of what the next stage has not
\* taken yet
Step_prependOutput(i, res, rest) ==
    IF res.ok
    THEN /\ stages' = [stages EXCEPT ![i] = res.st]
         /\ queues' = [queues EXCEPT ![i] = rest, ![i + 1] = res.outs \o queues[i + 1]]
         /\ failure' = failure
    ELSE ErrorStage(i, res)

\* the outcome of a transform() or flush() call of stage i
Step(i, res, rest) ==
    IF res.ok
    THEN /\ stages' = [stages EXCEPT ![i] = res.st]
         /\ queues' = [queues EXCEPT ![i] = rest, ![i + 1] = queues[i + 1] \o res.outs]
         /\ failure' = failure
    ELSE ErrorStage(i, res)

\* mutant: transform is called whether or not the stage's output has been taken
Transform_noBackpressure ==
    \E i \in 1..Len(stages) :
        /\ sop.t = "open"
        /\ stages[i].state = "open"
        /\ queues[i] # <<>>
        /\ Step(i, stageTransform(stages[i], Head(queues[i])), Tail(queues[i]))
        /\ UNCHANGED <<hasBuffer, bufVars, zstdVars, scenario, sop, source, pending, writes, ended, received>>

Transform ==
    \E i \in 1..Len(stages) :
        /\ sop.t = "open"
        /\ stages[i].state = "open"
        /\ queues[i] # <<>>
        /\ queues[i + 1] = <<>>
        /\ Step(i, stageTransform(stages[i], Head(queues[i])), Tail(queues[i]))
        /\ UNCHANGED <<hasBuffer, bufVars, zstdVars, scenario, sop, source, pending, writes, ended, received>>

\* mutant: flush enqueues the last output but the readable side is not closed
Flush_keepsReadableOpen ==
    \E i \in 1..Len(stages) :
        /\ sop.t = "open"
        /\ stages[i].state = "open"
        /\ queues[i] = <<>>
        /\ ended[i]
        /\ Step(i, stageFlush(stages[i]), <<>>)
        /\ ended' = ended
        /\ UNCHANGED <<hasBuffer, bufVars, zstdVars, scenario, sop, source, pending, writes, received>>

Flush ==
    \E i \in 1..Len(stages) :
        /\ sop.t = "open"
        /\ stages[i].state = "open"
        /\ queues[i] = <<>>
        /\ ended[i]
        /\ Step(i, stageFlush(stages[i]), <<>>)
        /\ ended' = [ended EXCEPT ![i + 1] = stageFlush(stages[i]).ok]
        /\ UNCHANGED <<hasBuffer, bufVars, zstdVars, scenario, sop, source, pending, writes, received>>

\* reader.read()
Read ==
    /\ sop.t = "open"
    /\ queues[Len(stages) + 1] # <<>>
    /\ received' = received \o Head(queues[Len(stages) + 1])
    /\ queues' = [queues EXCEPT ![Len(stages) + 1] = Tail(queues[Len(stages) + 1])]
    /\ UNCHANGED <<hasBuffer, bufVars, zstdVars, scenario, sop, source, pending, writes, stages, ended, failure>>

\* mutant: the pipes are made with preventAbort, a failed stage aborts nothing
PropagateForward_preventAbort == FALSE

\* streams[i].readable.pipeTo(streams[i + 1].writable) with stage i errored:
\* the pipe aborts the next stage with the same error
PropagateForward ==
    \E i \in 1..(Len(stages) - 1) :
        /\ sop.t = "open"
        /\ stages[i].state = "errored"
        /\ stages[i + 1].state = "open"
        /\ ErrorStage(i + 1, stages[i].error)
        /\ UNCHANGED <<hasBuffer, bufVars, zstdVars, scenario, sop, source, pending, writes, ended, received>>

\* streams[i - 1].readable.pipeTo(streams[i].writable) with stage i errored:
\* the pipe cancels the previous stage with the same error
PropagateBackward ==
    \E i \in 2..Len(stages) :
        /\ sop.t = "open"
        /\ stages[i].state = "errored"
        /\ stages[i - 1].state = "open"
        /\ ErrorStage(i - 1, stages[i].error)
        /\ UNCHANGED <<hasBuffer, bufVars, zstdVars, scenario, sop, source, pending, writes, ended, received>>

\* a pipeline of one stage: chainStreams returns it as it is
NextOneStage ==
    \/ Open
    \/ Write
    \/ Close
    \/ Transform
    \/ Flush
    \/ Read

NextStream ==
    \/ NextOneStage
    \/ PropagateForward
    \/ PropagateBackward

SpecStream == InitStream /\ [][NextStream]_vars

\* the pipes of chainStreams run by themselves as promise reactions
SpecStreamFair == SpecStream /\ WF_vars(PropagateForward)

\* pipelines of Base64 streams, with a producer that writes all its chunks and
\* closes, stages and pipes that run whenever they can, and a reader that
\* keeps reading: as long as one of them can take a step, a step is taken
\* a stage has a chunk to take and its own output has been taken: the
\* condition under which Transform can take a step
CanTransform ==
    /\ sop.t = "open"
    /\ \E i \in 1..Len(stages) :
           /\ stages[i].state = "open"
           /\ queues[i] # <<>>
           /\ queues[i + 1] = <<>>

\* the steps of a running pipeline other than transform()
PipelineStep ==
    \/ Write
    \/ Close
    \/ Flush
    \/ Read
    \/ PropagateForward
    \/ PropagateBackward

\* weak fairness of Transform, with its enabling condition written out
FairTransform == (<>[]CanTransform) => []<><<Transform>>_vars

SpecBase64Chain ==
    /\ InitBase64Chain
    /\ [][NextStream]_vars
    /\ WF_vars(PipelineStep)
    /\ FairTransform

SpecBase64Text == InitBase64Text /\ [][NextOneStage]_vars

SpecBase64Batches == InitBase64Batches /\ [][NextOneStage]_vars

SpecBase64Chunks == InitBase64Chunks /\ [][NextOneStage]_vars

\* the reader has read everything and seen the end
Finished ==
    /\ Running
    /\ ended[Len(stages) + 1]
    /\ queues[Len(stages) + 1] = <<>>

KindsOf(sts) == [i \in 1..Len(sts) |-> sts[i].kind]

(***************************************************************************)
(* Claims about the buffered entry points.                                 *)
(***************************************************************************)
RoundTripTokens == {Str(<<t>>) : t \in {"gzip", "deflate", "br", "zstd", "base64"}}
AliasStrings == {Str(<<t>>) : t \in AliasPieces}

\* C1: round trip.  A body encoded by encodeBuffer with one token of gzip,
\* deflate, br, zstd, base64 and decoded by decodeBuffer with the same token
\* is the original body.
C1_RoundTrip ==
    ( /\ op.fn = "decodeBuffer"
      /\ Len(applied) = 1
      /\ applied[1] \in RoundTripTokens
      /\ op.spec = applied[1] )
    => op.res = Ok(orig)

C1_Witness ==
    /\ op.fn = "decodeBuffer"
    /\ applied = <<Str(<<"base64">>)>>
    /\ op.spec = Str(<<"base64">>)
    /\ Len(orig) = 2
    /\ op.arg # orig
    /\ op.res = Ok(orig)

\* C2: pass-through.  decodeBuffer and decodeBufferSync with an undefined
\* encoding, and decodeBuffer, decodeBufferSync and encodeBuffer with any of
\* the seven no-op aliases, return the bytes they were given and do not fail.
C2_PassThrough ==
    ( \/ op.fn \in DecodeFns /\ op.spec = Undefined
      \/ op.fn \in DecodeFns \cup {"encodeBuffer"} /\ op.spec \in AliasStrings )
    => op.res = Ok(op.arg)

C2_Witness ==
    /\ op.fn = "decodeBufferSync"
    /\ op.spec = Str(<<"utf-8">>)
    /\ Len(op.arg) > 0
    /\ op.res = Ok(op.arg)

\* the stages of a joined spec applied one at a time, last token first, each
\* on the output of the one before; the first failure ends the fold
RECURSIVE C3_Fold(_, _, _)
C3_Fold(fn, res, tokens) ==
    IF tokens = <<>> \/ ~res.ok THEN res
    ELSE C3_Fold(fn,
                 IF fn = "decodeBuffer"
                 THEN decodeBufferOne(res.val, tokens[Len(tokens)])
                 ELSE decodeBufferSyncOne(res.val, tokens[Len(tokens)]),
                 SubSeq(tokens, 1, Len(tokens) - 1))

\* C3: for a ", "-joined spec t1, ..., tn, decodeBuffer and decodeBufferSync
\* apply the decoders in the order tn, ..., t1, each on the previous output,
\* none skipped; so a body encoded with t1 then t2 and decoded with "t1, t2"
\* is the original body.
C3_ReverseOrder ==
    /\ ( op.fn \in DecodeFns /\ IsString(op.spec) /\ IncludesSep(op.spec) )
       => op.res = C3_Fold(op.fn, Ok(op.arg), Split(op.spec))
    /\ ( /\ op.fn \in DecodeFns
         /\ Len(applied) = 2
         /\ op.spec = Str(<<applied[1].parts[1], applied[2].parts[1]>>)
         /\ op.fn = "decodeBufferSync" => Str(<<"br">>) \notin {applied[1], applied[2]} )
       => op.res = Ok(orig)

C3_Witness ==
    /\ op.fn = "decodeBuffer"
    /\ applied = <<Str(<<"gzip">>), Str(<<"base64">>)>>
    /\ op.spec = Str(<<"gzip", "base64">>)
    /\ Len(orig) > 0
    /\ op.res = Ok(orig)

\* Array.prototype.join(', ') of a list of strings
RECURSIVE JoinParts(_)
JoinParts(items) ==
    IF items = <<>> THEN <<>> ELSE items[1].parts \o JoinParts(Tail(items))

Join(items) == IF items = <<>> THEN Str(<<"">>) ELSE Str(JoinParts(items))

\* C4: a spec given as a list is reversed before application, so decoding
\* with a list L gives the result of decoding with the string L.join(', ').
C4_ListLikeString ==
    ( op.fn \in DecodeFns /\ IsArray(op.spec) )
    => op.res = IF op.fn = "decodeBuffer"
                THEN decodeBuffer(op.arg, Join(op.spec.items))
                ELSE decodeBufferSync(op.arg, Join(op.spec.items))

DeflateTokens == {Str(<<t>>) : t \in {"deflate", "x-deflate"}}

\* C8: with token deflate or x-deflate, decodeBuffer and decodeBufferSync use
\* the zlib-wrapped inflate exactly when the low nibble of the first byte is
\* 8 and the raw inflate otherwise; the zlib-wrapped and the raw deflate
\* compression of a plaintext both decode to the plaintext.
C8_DeflateSniff ==
    /\ ( op.fn \in DecodeFns /\ op.spec \in DeflateTokens )
       => op.res = IF Len(op.arg) > 0 /\ op.arg[1] % 16 = 8
                   THEN inflate(op.arg)
                   ELSE inflateRaw(op.arg)
    /\ ( /\ op.fn \in DecodeFns /\ op.spec \in DeflateTokens
         /\ Len(applied) = 1
         /\ applied[1] \in DeflateTokens \cup {Str(<<"deflate-raw">>)} )
       => op.res = Ok(orig)

C8_Witness ==
    /\ op.fn = "decodeBuffer"
    /\ op.spec = Str(<<"deflate">>)
    /\ applied = <<Str(<<"deflate-raw">>)>>
    /\ Len(orig) > 0
    /\ op.arg[1] % 16 # 8
    /\ op.res = Ok(orig)

\* a non-empty token that is neither a codec token nor a no-op alias
UnknownStrings ==
    {Str(<<p>>) : p \in {q \in Pieces :
        q # "" /\ LowerPiece(q) \notin CodecPieces \cup AliasPieces}}

C11_Lower(spec) ==
    IF IsArray(spec)
    THEN List([i \in 1..Len(spec.items) |->
                  Str([k \in 1..Len(spec.items[i].parts) |-> LowerPiece(spec.items[i].parts[k])])])
    ELSE Str([k \in 1..Len(spec.parts) |-> LowerPiece(spec.parts[k])])

\* the pieces a spec is written with
C11_Pieces(spec) ==
    IF IsArray(spec)
    THEN UNION {{spec.items[i].parts[k] : k \in 1..Len(spec.items[i].parts)} :
                    i \in 1..Len(spec.items)}
    ELSE {spec.parts[k] : k \in 1..Len(spec.parts)}

\* the call fn(arg, spec, options)
C11_Call(fn, arg, spec, options) ==
    CASE fn = "decodeBuffer" -> decodeBuffer(arg, spec)
      [] fn = "decodeBufferSync" -> decodeBufferSync(arg, spec)
      [] fn = "encodeBuffer" -> encodeBuffer(arg, spec, options)
      [] fn = "createDecodeStream" -> createDecodeStream(spec)
      [] fn = "createEncodeStream" -> createEncodeStream(spec)

\* C11: a call whose spec is written with re-cased codec tokens or aliases
\* (alone or in a multi-token spec) returns what the same call returns for the
\* spec in lower case, in decodeBuffer, decodeBufferSync, encodeBuffer,
\* createDecodeStream and createEncodeStream.
C11_CaseInsensitive ==
    ( /\ op.fn \in LeafFns \cup {"encodeBuffer"}
      /\ op.spec # Undefined
      /\ \A q \in C11_Pieces(op.spec) : LowerPiece(q) \in CodecPieces \cup AliasPieces )
    => op.res = C11_Call(op.fn, op.arg, C11_Lower(op.spec), op.options)

\* 'GZIP, Base64' decodes a body that was gzipped and then Base64-encoded
C11_Witness ==
    /\ op.fn = "decodeBuffer"
    /\ op.spec = Str(<<"GZIP", "Base64">>)
    /\ applied = <<Str(<<"gzip">>), Str(<<"base64">>)>>
    /\ Len(orig) > 0
    /\ op.res = Ok(orig)

\* the tokens of a spec handed to a stream constructor
C12_Tokens(spec) ==
    IF spec = Undefined \/ spec = Str(<<"">>) THEN <<>>
    ELSE IF IsArray(spec) THEN spec.items
    ELSE Split(spec)

C12_IsAlias(token) == C11_Lower(token) \in AliasStrings

\* C12: createDecodeStream and createEncodeStream return null exactly when
\* the spec is undefined, the empty string or made of no-op aliases only, and
\* a pipeline they return has one stage for each token that is not an alias.
C12_NullOrStages ==
    op.fn \in {"createDecodeStream", "createEncodeStream"} =>
        LET tokens == C12_Tokens(op.spec)
            kept == {i \in 1..Len(tokens) : ~C12_IsAlias(tokens[i])}
        IN  /\ op.res = Null <=> kept = {}
            /\ (op.res.ok /\ op.res # Null) => Len(op.res.stages) = Cardinality(kept)

\* 'identity, gzip' gives a pipeline of the gunzip stage alone
C12_Witness ==
    /\ op.fn = "createDecodeStream"
    /\ op.spec = Str(<<"identity", "gzip">>)
    /\ op.res = Stream(<<"createGunzipStream">>)

\* a spec of aliases only gives null
C12_WitnessNull ==
    /\ op.fn = "createEncodeStream"
    /\ op.spec = List(<<Str(<<"identity">>), Str(<<"identity">>)>>)
    /\ op.res = Null

AsyncOnlyPieces == {"br", "zstd"}

\* the token decodeBufferSync applies first
C13_FirstApplied(spec) ==
    IF IsArray(spec) THEN spec.items[1]
    ELSE Str(<<spec.parts[Len(spec.parts)]>>)

C13_WitnessMulti ==
    /\ op.fn = "decodeBufferSync"
    /\ op.spec = Str(<<"gzip", "br">>)
    /\ applied = <<Str(<<"gzip">>), Str(<<"br">>)>>
    /\ ~op.res.ok

\* the tokens of a spec that are neither codec tokens nor no-op aliases
C21_Unknown(spec) ==
    {k \in 1..Len(C12_Tokens(spec)) : C12_Tokens(spec)[k] \in UnknownStrings}

\* C21: decodeBuffer and decodeBufferSync given a spec of several tokens, one
\* of which is unrecognised, fail with "Unsupported encoding" naming that
\* token, whatever the body and the other tokens are.
C21_UnknownInChain ==
    ( /\ op.fn \in DecodeFns
      /\ Len(C12_Tokens(op.spec)) >= 2
      /\ C21_Unknown(op.spec) # {} )
    => /\ ~op.res.ok
       /\ op.res.err = "Unsupported encoding"
       /\ \E k \in C21_Unknown(op.spec) :
              op.res.token = toLowerCase(C12_Tokens(op.spec)[k]).parts

\* the fallback engine is needed and does not load
ZstdLoadFails == ~zlibHasZstd /\ codecLoad # "loads"

\* the state of the k-th zstd call
CallState(k) == IF k <= Len(calls) THEN calls[k].state ELSE "not made"

\* C22: when the fallback zstd engine fails to load, every zstd call made
\* comes to be rejected, and none is fulfilled.
C22_ZstdLoadFailure ==
    /\ \A k \in 1..MaxCalls :
           (ZstdLoadFails /\ Len(calls) >= k) ~> (CallState(k) = "rejected")
    /\ [](ZstdLoadFails => \A k \in 1..Len(calls) : calls[k].state # "fulfilled")

\* the tokens whose engine takes a level
LevelPieces == {"gzip", "x-gzip", "deflate", "x-deflate", "br", "zstd"}

C25_WitnessDefault ==
    /\ op.fn = "encodeBuffer"
    /\ op.spec = Str(<<"br">>)
    /\ op.options = <<>>
    /\ op.res = Ok(<<BROTLI_HDR, 4>> \o op.arg)

\* C36: a string spec without ', ' is one token to decodeBuffer,
\* decodeBufferSync, createDecodeStream and createEncodeStream: the call
\* returns what it returns for the list of that one string, and 'gzip,br' is
\* an unsupported encoding named whole; encodeBuffer takes a string with
\* ', ' as one token too.
C36_SeparatorOnly ==
    /\ ( /\ op.fn \in LeafFns
         /\ IsString(op.spec)
         /\ ~Falsy(op.spec)
         /\ ~IncludesSep(op.spec) )
       => /\ op.res = C11_Call(op.fn, op.arg, List(<<op.spec>>), op.options)
          /\ op.spec = Str(<<"gzip,br">>) => op.res = Unsupported(op.spec)
    /\ ( /\ op.fn = "encodeBuffer"
         /\ IsString(op.spec)
         /\ IncludesSep(op.spec) )
       => op.res = Unsupported(op.spec)

\* createDecodeStream('gzip,br') throws, naming 'gzip,br'
C36_Witness ==
    /\ op.fn = "createDecodeStream"
    /\ op.spec = Str(<<"gzip,br">>)
    /\ op.res = Unsupported(Str(<<"gzip,br">>))

\* encodeBuffer(body, 'gzip, br') rejects, naming 'gzip, br'
C36_WitnessEncode ==
    /\ op.fn = "encodeBuffer"
    /\ op.spec = Str(<<"gzip", "br">>)
    /\ op.res = Unsupported(Str(<<"gzip", "br">>))

\* the call has failed with "Unsupported encoding"
IsUnsupported(res) == ~res.ok /\ res.err = "Unsupported encoding"

\* C37: for a spec that decodeBuffer has been given with a body it found
\* nothing wrong with, createDecodeStream throws "Unsupported encoding"
\* exactly when decodeBuffer rejected with it; when neither does, the
\* pipeline has the stages of the codecs decodeBuffer applied, in its order.
C37_SameSpecs ==
    ( /\ op.fn = "decodeBuffer"
      /\ op.res.ok \/ IsUnsupported(op.res) )
    => LET made == createDecodeStream(op.spec)
           tokens == IF isMulti(op.spec) THEN decodeOrder(op.spec) ELSE <<op.spec>>
           flat == \A i \in 1..Len(tokens) : ~isMulti(tokens[i])
       IN  /\ IsUnsupported(made) <=> IsUnsupported(op.res)
           /\ (made.ok /\ op.res.ok /\ flat /\ op.spec # Undefined) =>
                  made.stages = mapDecoderStages(filterIdentity(
                      SelectSeq(tokens, LAMBDA t : ~Falsy(t)))).stages

\* the codec tokens decodeBufferSync knows
SyncPieces == {"gzip", "x-gzip", "deflate", "x-deflate", "base64"}

\* C38: for a spec whose tokens are all among gzip, x-gzip, deflate,
\* x-deflate, base64 and the no-op aliases, in any case, decodeBufferSync
\* returns the bytes decodeBuffer resolves to and throws the error it rejects
\* with, whatever the body.
C38_SyncAgrees ==
    ( /\ op.fn \in DecodeFns
      /\ op.spec = Undefined \/
             \A q \in C11_Pieces(op.spec) : LowerPiece(q) \in SyncPieces \cup AliasPieces )
    => /\ decodeBufferSync(op.arg, op.spec) = decodeBuffer(op.arg, op.spec)
       /\ op.res = decodeBuffer(op.arg, op.spec)

\* decodeBufferSync has decoded a raw-deflated body with the token 'deflate'
C38_Witness ==
    /\ op.fn = "decodeBufferSync"
    /\ op.spec = Str(<<"deflate">>)
    /\ Len(orig) > 0
    /\ applied = <<Str(<<"deflate-raw">>)>>
    /\ op.arg[1] % 16 # 8
    /\ op.res = Ok(orig)

\* decodeBufferSync has thrown the engine's error on a body that is not gzip
C38_WitnessThrow ==
    /\ op.fn = "decodeBufferSync"
    /\ op.spec = Str(<<"gzip", "base64">>)
    /\ ~op.res.ok
    /\ op.res.err = "engine"

(***************************************************************************)
(* Claims about the fallback streams and the lazily loaded engines.        *)
(***************************************************************************)
\* stream s has just been given a chunk, flushed, or had output produced
EngineUsed(s) ==
    \/ fstreams'[s].taken # fstreams[s].taken
    \/ fstreams'[s].produced # fstreams[s].produced
    \/ fstreams'[s].frees # fstreams[s].frees
    \/ fstreams'[s].call # fstreams[s].call /\ fstreams'[s].call # "none"

\* C32: in a brotli-wasm or zstd-codec fallback stream, until start() has
\* completed no chunk has been given to transform(), no call is in progress,
\* the stream is not flushed and nothing has been produced or enqueued; the
\* engine handle is used only when start() has completed and the handle is
\* set; and the chunks are given to transform() in the order written, those
\* written before start() completed included
C32_NothingBeforeStart ==
    /\ [](\A s \in 1..Len(fstreams) :
            /\ fstreams[s].start # "done" =>
                   /\ fstreams[s].taken = <<>>
                   /\ fstreams[s].call = "none"
                   /\ fstreams[s].produced = 0
                   /\ fstreams[s].out = <<>>
                   /\ fstreams[s].state # "closed"
            /\ fstreams[s].taken = Numbered(0, Len(fstreams[s].taken))
            /\ Len(fstreams[s].taken) <= fstreams[s].written)
    /\ [][\A s \in 1..Len(fstreams) :
            EngineUsed(s) => (fstreams[s].start = "done" /\ fstreams[s].handle = "live")]_vars

\* two chunks were written to a zstd-codec stream before start() completed,
\* and both have been transformed since, with output enqueued
C32_Witness ==
    \E s \in 1..Len(fstreams) :
        /\ fstreams[s].kind \in ZstdCodecKinds
        /\ fstreams[s].early >= 2
        /\ Len(fstreams[s].taken) = 2
        /\ fstreams[s].out # <<>>

\* the same for a brotli-wasm stream, closed by its flush
C32_WitnessBrotli ==
    \E s \in 1..Len(fstreams) :
        /\ fstreams[s].kind \in BrotliWasmKinds
        /\ fstreams[s].early >= 2
        /\ Len(fstreams[s].taken) = 2
        /\ fstreams[s].out # <<>>
        /\ fstreams[s].state = "closed"

\* C33: without zlib's zstd, whatever the number and interleaving of the zstd
\* calls and of the engine's loading steps, at most one call creates the
\* engine promise and all calls await that one promise; and at most one of
\* the fallback zstd streams created loads the zstd stream classes
C33_LoadedOnce ==
    /\ Cardinality({k \in 1..Len(calls) : calls[k].created}) <= 1
    /\ ~zlibHasZstd =>
           \A k \in 1..Len(calls) : calls[k].awaits # 0 /\ calls[k].awaits = calls[1].awaits
    /\ Cardinality({s \in 1..Len(fstreams) : fstreams[s].loadedClasses}) <= 1
    /\ fstreams # <<>> => fstreams[1].loadedClasses

\* two calls are awaiting the engine while it loads, and two fallback streams
\* are waiting for the stream classes
C33_Witness ==
    /\ ~zlibHasZstd
    /\ Len(calls) = 2
    /\ calls[1].state = "awaiting"
    /\ calls[2].state = "awaiting"
    /\ zstd = "pending"
    /\ Len(fstreams) = 2
    /\ zstdStreamClasses = "pending"

\* both calls have been served by the engine and both streams have their
\* transform
C33_WitnessSettled ==
    /\ ~zlibHasZstd
    /\ Len(calls) = 2
    /\ \A k \in 1..2 : calls[k].state \in {"fulfilled", "rejected"}
    /\ Len(fstreams) = 2
    /\ \A s \in 1..2 : fstreams[s].handle = "live"

\* C34: the session of a brotli-wasm fallback stream is never freed twice, and
\* once the stream has ended (closed, errored in transform, aborted or
\* cancelled) the session it created has been freed
C34_SessionFreed ==
    \A s \in 1..Len(fstreams) :
        fstreams[s].kind \in BrotliWasmKinds =>
            /\ fstreams[s].frees <= 1
            /\ (fstreams[s].state # "open" /\ fstreams[s].handle # "undefined")
                   => fstreams[s].frees = 1

\* C39: in a zstd-codec fallback stream that has not failed, the chunks
\* enqueued to the output are the chunks the zstd Transform has emitted, each
\* once and in the order of emission
C39_NoDataLost ==
    \A s \in 1..Len(fstreams) :
        (fstreams[s].kind \in ZstdCodecKinds /\ fstreams[s].state \in {"open", "closed"})
            => fstreams[s].out = fstreams[s].emitted

(***************************************************************************)
(* Claims about the streams.                                               *)
(***************************************************************************)
\* the codec a token names, applied to a whole buffer at the streams' level
C5_Codec(piece, b) ==
    CASE piece = "gzip" -> gzip(b, ENGINE_DEFAULT_LEVEL)
      [] piece \in {"deflate", "x-deflate"} -> deflate(b, ENGINE_DEFAULT_LEVEL)
      [] piece = "br" -> brotliCompress(b, ENGINE_DEFAULT_LEVEL)
      [] piece = "zstd" -> zstdCompress(b, ENGINE_DEFAULT_LEVEL)
      [] piece = "base64" -> encodeBase64Sync(b)
      [] OTHER -> b

RECURSIVE C5_LeftToRight(_, _)
C5_LeftToRight(b, tokens) ==
    IF tokens = <<>> THEN b
    ELSE C5_LeftToRight(C5_Codec(tokens[1].parts[1], b), Tail(tokens))

\* C5: a pipeline made by createEncodeStream(S) emits the codecs of S applied to
\* the input left to right, and data piped through createEncodeStream(S) and
\* then createDecodeStream(S'), S' being S as a string or as a list, comes out
\* as the original bytes, without an error.
C5_StreamOrder ==
    /\ (Finished /\ sop.mode = "encode") =>
           received = C5_LeftToRight(orig, TokensOf(sop.spec))
    /\ (sop.t = "open" /\ sop.mode = "roundtrip") => failure = NoFailure
    /\ (Finished /\ sop.mode = "roundtrip") => received = orig

\* C6: whatever the split of the input into chunks, the bytes read from
\* createBase64EncodeStream are the buffered Base64 encoding of the whole input.
C6_Base64EncodeSplit ==
    (Finished /\ KindsOf(stages) = <<"createBase64EncodeStream">>) =>
        received = encodeBase64Sync(source)

\* four bytes written as three chunks: a chunk boundary is off the 3-byte grid
C6_Witness ==
    /\ Finished
    /\ KindsOf(stages) = <<"createBase64EncodeStream">>
    /\ Len(source) = 4
    /\ writes = 3
    /\ received = encodeBase64Sync(source)

\* C7: whatever the split of a text of alphabet characters, URL-safe characters,
\* '=' and whitespace, createBase64DecodeStream ends without an error and the
\* bytes read from it are the buffered Base64 decode of the whole text.
C7_Base64DecodeSplit ==
    (scenario = "base64 text" /\ InvalidPositions(orig) = {}) =>
        /\ failure = NoFailure
        /\ Finished => Ok(received) = decodeBase64Sync(source)

\* C9: createDecodeStream('deflate' / 'x-deflate') ends as decodeBuffer does on
\* the same input: with the same bytes, or both with an error.
C9_StreamDeflateSniff ==
    (/\ sop.t = "open"
     /\ sop.mode = "decode"
     /\ sop.spec \in DeflateTokens
     /\ Finished \/ failure # NoFailure) =>
        IF failure = NoFailure
        THEN Ok(received) = decodeBuffer(source, sop.spec)
        ELSE ~decodeBuffer(source, sop.spec).ok

\* the bytes a Base64 text may hold: the alphabet, '-', '_', '=', space, tab,
\* LF and CR
C14_Allowed ==
    {BASE64_CHARS[i] : i \in 1..64} \cup {45, 95, 61, 32, 9, 10, 13}

\* positions (0-based) of the bytes of a text that are not allowed
C14_Bad(text) == {i \in 0..(Len(text) - 1) : text[i + 1] \notin C14_Allowed}

\* the number of bytes written so far
Written == Len(source) - Len(pending)

\* C14: once a chunk with a byte outside the allowed set has been handed to
\* createBase64DecodeStream, the stream has failed with "Invalid base64
\* character" naming the first such byte and its position in carry + chunk
\* (the carry being the bytes of the text just before the chunk); it fails for
\* no other reason, and what the reader got comes from the complete groups
\* before that byte only.
C14_InvalidByte ==
    (scenario = "base64 text" /\ sop.t = "open") =>
        LET bad == C14_Bad(source)
        IN  /\ (bad # {} /\ Written > MinOf(bad) /\ queues[1] = <<>>) => failure # NoFailure
            /\ failure # NoFailure =>
                   LET carry == stages[1].leftover
                       pos == failure.token[1]
                       start == MinOf(bad) - pos
                   IN  /\ bad # {}
                       /\ failure.err = "Invalid base64 character"
                       /\ failure.token[2] = source[MinOf(bad) + 1]
                       /\ pos >= Len(carry)
                       /\ start >= 0
                       /\ SubSeq(source, start + 1, start + Len(carry)) = carry
                       /\ Len(received) <= 3 * (GroupCharsIn(source, MinOf(bad)) \div 4)

\* 'QQQQQ#' written as 'QQQQQ' and '#': the first group is read, then the
\* second chunk fails at position 1 of carry + chunk
C14_Witness ==
    /\ scenario = "base64 text"
    /\ source = <<81, 81, 81, 81, 81, 35>>
    /\ failure = InvalidBase64(1, 35)
    /\ Len(received) = 3

\* C15: decodeBuffer and decodeBufferSync with the token base64 raise an
\* invalid-input error, and return no buffer, when the body holds a byte that
\* is not an alphabet character, a URL-safe character, '=' or whitespace.
C15_BufferedInvalidByte ==
    ( /\ op.fn \in DecodeFns
      /\ op.spec \in {Str(<<"base64">>), Str(<<"Base64">>)}
      /\ C14_Bad(op.arg) # {} )
    => /\ ~op.res.ok
       /\ op.res.err = "Invalid base64 character"

\* RFC 4648: the 6-bit value of a character of either alphabet
SymbolValue(c) ==
    IF c = 45 THEN 62
    ELSE IF c = 95 THEN 63
    ELSE CHOOSE i \in 0..63 : BASE64_CHARS[i + 1] = c

\* the characters of a text that are symbols of either alphabet, in order
RECURSIVE SymbolsOf(_)
SymbolsOf(text) ==
    IF text = <<>> THEN <<>>
    ELSE (IF text[1] \in ({BASE64_CHARS[i] : i \in 1..64} \cup {45, 95})
          THEN <<text[1]>> ELSE <<>>) \o SymbolsOf(Tail(text))

\* RFC 4648: the bytes of one group of 2, 3 or 4 symbols
GroupBytes(symbols) ==
    LET v == [k \in 1..4 |-> IF k <= Len(symbols) THEN SymbolValue(symbols[k]) ELSE 0]
        n == (v[1] * 262144) + (v[2] * 4096) + (v[3] * 64) + v[4]
    IN  SubSeq(<<n \div 65536, (n \div 256) % 256, n % 256>>, 1, Len(symbols) - 1)

\* RFC 4648: the bytes a sequence of symbols encodes, the last group being of
\* 2, 3 or 4 symbols (a single last symbol encodes nothing)
RECURSIVE SymbolBytes(_)
SymbolBytes(symbols) ==
    IF Len(symbols) <= 1 THEN <<>>
    ELSE IF Len(symbols) <= 4 THEN GroupBytes(symbols)
    ELSE GroupBytes(SubSeq(symbols, 1, 4)) \o SymbolBytes(SubSeq(symbols, 5, Len(symbols)))

\* a text of symbols and whitespace only
Unpadded(text) == \A k \in 1..Len(text) : text[k] # 61 /\ text[k] \in C14_Allowed

\* C16: a text of symbols and whitespace that ends with a group of 2 or 3
\* symbols goes through createBase64DecodeStream without an error, and the
\* bytes read are those of the complete groups followed by the 1 or 2 bytes
\* the last group encodes.
C16_MissingPadding ==
    ( /\ scenario = "base64 text"
      /\ Unpadded(orig)
      /\ Len(SymbolsOf(orig)) % 4 \in {2, 3} )
    => /\ failure = NoFailure
       /\ Finished => received = SymbolBytes(SymbolsOf(source))
       /\ (sop.t = "open" /\ stages[1].state = "open") =>
              Len(received) + Len(Concat(queues[2])) <= 3 * (Len(SymbolsOf(source)) \div 4)

\* 'Q QQ' written in two chunks: flush emits the two bytes of 'QQQ'
C16_Witness ==
    /\ Finished
    /\ source = <<81, 32, 81, 81>>
    /\ writes = 2
    /\ received = <<65, 4>>

\* C17: a text of symbols and whitespace that ends with a group of exactly
\* 1 symbol never goes through createBase64DecodeStream to a normal end.
C17_DanglingSymbol ==
    ( /\ scenario = "base64 text"
      /\ Unpadded(orig)
      /\ Len(SymbolsOf(orig)) % 4 = 1 )
    => ~Finished

\* the text with every URL-safe symbol replaced by its standard one
Standard(text) ==
    [k \in 1..Len(text) |-> IF text[k] = 45 THEN 43 ELSE IF text[k] = 95 THEN 47 ELSE text[k]]

\* symbols of either alphabet, then the padding that completes the last group
ValidBase64(text) ==
    \E n \in 0..Len(text) :
        /\ \A k \in 1..n : text[k] \in ({BASE64_CHARS[i] : i \in 1..64} \cup {45, 95})
        /\ \A k \in (n + 1)..Len(text) : text[k] = 61
        /\ IF n = Len(text) THEN n % 4 # 1
           ELSE Len(text) % 4 = 0 /\ Len(text) - n <= 2 /\ n > 0

\* what createBase64DecodeStream delivers for a text written as one chunk
DecodeWhole(text) ==
    LET t == base64DecodeTransform(NewStage("createBase64DecodeStream"), text)
        f == base64DecodeFlush(t.st)
    IN  IF ~t.ok THEN t
        ELSE IF ~f.ok THEN f
        ELSE Ok(Concat(t.outs \o f.outs))

\* C18: a valid Base64 text in which '+' and '-', '/' and '_' are mixed at
\* will decodes to the bytes of the same text in the standard alphabet, by
\* decodeBase64Sync and, without an error, through createBase64DecodeStream.
C18_MixedAlphabets ==
    ( /\ scenario = "base64 text"
      /\ ValidBase64(orig) )
    => /\ decodeBase64Sync(orig) = decodeBase64Sync(Standard(orig))
       /\ decodeBase64Sync(orig).ok
       /\ failure = NoFailure
       /\ Finished => Ok(received) = DecodeWhole(Standard(source))

\* '-/_+' and '+/_-' (both mixed) have been decoded to the bytes of '+//+'
C18_Witness ==
    /\ Finished
    /\ source \in {<<45, 47, 95, 43>>, <<43, 47, 95, 45>>}
    /\ Standard(source) = <<43, 47, 47, 43>>
    /\ received = <<251, 255, 254>>

\* the text without its space, tab, LF and CR bytes
Strip(text) ==
    LET NotWhitespace(c) == c \notin {32, 9, 10, 13}
    IN  SelectSeq(text, NotWhitespace)

\* C19: a valid Base64 text with whitespace inserted anywhere decodes to the
\* bytes of the text without the whitespace, by decodeBase64Sync and, under
\* every split and without an error, through createBase64DecodeStream.
C19_Whitespace ==
    ( /\ scenario \in {"base64 text", "base64 batches"}
      /\ sop.t = "open" => sop.mode = "decode"
      /\ ValidBase64(Strip(orig)) )
    => /\ decodeBase64Sync(orig) = decodeBase64Sync(Strip(orig))
       /\ failure = NoFailure
       /\ Finished => Ok(received) = DecodeWhole(Strip(source))

\* some stage of the pipeline has failed
SomeStageErrored == \E i \in 1..Len(stages) : stages[i].state = "errored"

\* C20: once a stage of a pipeline has failed, whichever it is, the reader
\* comes to see the readable side errored; from then on the error it sees is
\* the same one, that of the last stage, and it reads no more bytes.
C20_ErrorPropagation ==
    /\ SomeStageErrored ~> (failure # NoFailure)
    /\ [][failure # NoFailure => (failure' = failure /\ received' = received)]_vars
    /\ [](failure # NoFailure =>
            /\ queues[Len(stages) + 1] = <<>>
            /\ stages[Len(stages)].state = "errored"
            /\ stages[Len(stages)].error = failure)

\* 'iiii' through three Base64 decoders: the second one fails on the byte 138
\* that the first one emits, and the reader has seen that error
C20_Witness ==
    /\ source = <<105, 105, 105, 105>>
    /\ KindsOf(stages) = <<"createBase64DecodeStream", "createBase64DecodeStream",
                           "createBase64DecodeStream">>
    /\ failure = InvalidBase64(0, 138)
    /\ \A i \in 1..3 : stages[i].state = "errored" /\ stages[i].error = failure

\* a failure of the first stage of two, and of the last one, seen by the reader
C20_WitnessFirst ==
    /\ Len(stages) = 2
    /\ failure # NoFailure
    /\ source = <<255>>
    /\ KindsOf(stages) = <<"createBase64DecodeStream", "createGunzipStream">>

C20_WitnessLast ==
    /\ Len(stages) = 2
    /\ failure # NoFailure
    /\ stages[1].state = "flushed"
    /\ KindsOf(stages) = <<"createBase64DecodeStream", "createGunzipStream">>

\* the bytes the first stage has been handed in transform calls so far
Consumed == SubSeq(source, 1, Written - Len(Concat(queues[1])))

\* the bytes the last stage has enqueued so far, read or not
Emitted == received \o Concat(queues[Len(stages) + 1])

\* C23: between the calls of a Base64 stream, before its flush, the output
\* enqueued is that of all the complete 3-byte groups (encode) or all the
\* complete 4-symbol groups (decode) of the input handed to it so far.
C23_Incremental ==
    ( /\ scenario = "base64 chunks"
      /\ sop.t = "open"
      /\ stages[1].state = "open" )
    => IF sop.mode = "encode"
       THEN Emitted = encodeBase64Sync(SubSeq(Consumed, 1, 3 * (Len(Consumed) \div 3)))
       ELSE Emitted = SymbolBytes(SubSeq(SymbolsOf(Consumed), 1,
                                         4 * (Len(SymbolsOf(Consumed)) \div 4)))

\* five bytes are to be encoded; the first four are written and the four
\* characters of their complete group are out before the rest is written
C23_Witness ==
    /\ scenario = "base64 chunks"
    /\ sop.t = "open"
    /\ sop.mode = "encode"
    /\ stages[1].state = "open"
    /\ Len(source) = 5
    /\ Len(pending) = 1
    /\ queues[1] = <<>>
    /\ Len(Emitted) = 4

\* the same for the decoder: 'QQ QQ' is written and not yet closed, three bytes are out
C23_WitnessDecode ==
    /\ scenario = "base64 chunks"
    /\ sop.t = "open"
    /\ sop.mode = "decode"
    /\ stages[1].state = "open"
    /\ source = <<81, 81, 32, 81, 81>>
    /\ queues[1] = <<>>
    /\ ~ended[1]
    /\ Emitted = <<65, 4, 16>>

\* RFC 4648: the character of a 6-bit value in the alphabet A-Z a-z 0-9 + /
StandardChar(v) ==
    IF v < 26 THEN 65 + v
    ELSE IF v < 52 THEN 97 + (v - 26)
    ELSE IF v < 62 THEN 48 + (v - 52)
    ELSE IF v = 62 THEN 43
    ELSE 47

\* RFC 4648: the 4 characters of a group of 1, 2 or 3 bytes
StandardGroup(group) ==
    LET b == [k \in 1..3 |-> IF k <= Len(group) THEN group[k] ELSE 0]
        n == (b[1] * 65536) + (b[2] * 256) + b[3]
        c == <<StandardChar(n \div 262144), StandardChar((n \div 4096) % 64),
               StandardChar((n \div 64) % 64), StandardChar(n % 64)>>
    IN  [k \in 1..4 |-> IF k <= Len(group) + 1 THEN c[k] ELSE 61]

RECURSIVE StandardBase64(_)
StandardBase64(bytes) ==
    IF bytes = <<>> THEN <<>>
    ELSE IF Len(bytes) <= 3 THEN StandardGroup(bytes)
    ELSE StandardGroup(SubSeq(bytes, 1, 3)) \o StandardBase64(SubSeq(bytes, 4, Len(bytes)))

\* 'hello world' and 'aGVsbG8gd29ybGQ='
HelloWorld == <<104, 101, 108, 108, 111, 32, 119, 111, 114, 108, 100>>
HelloWorldBase64 == <<97, 71, 86, 115, 98, 71, 56, 103, 100, 50, 57, 121, 98, 71, 81, 61>>

\* C24: the Base64 encoder, with and without Buffer, buffered and as a
\* stream, gives the RFC 4648 encoding: 4 characters of the standard alphabet
\* for each group of 3 bytes, the last group of 1 or 2 bytes padded with '=='
\* or '=', ceil(n / 3) * 4 characters in all.
C24_StandardEncoding ==
    (scenario = "codec") =>
        /\ encodeBase64Sync(orig) = StandardBase64(orig)
        /\ Len(encodeBase64Sync(orig)) = 4 * ((Len(orig) + 2) \div 3)
        /\ sop.t = "none" => encodeBase64Sync(HelloWorld) = HelloWorldBase64
        /\ (Finished /\ KindsOf(stages) = <<"createBase64EncodeStream">>) =>
               received = StandardBase64(source)

\* the bytes 69 ff have been encoded by the stream to 'af8='
C24_Witness ==
    /\ Finished
    /\ KindsOf(stages) = <<"createBase64EncodeStream">>
    /\ source = <<105, 255>>
    /\ received = <<97, 102, 56, 61>>

\* the chunks the step has added to the reader's queue
NewChunks(n) == SubSeq(queues'[n], Len(queues[n]) + 1, Len(queues'[n]))

\* the step is a transform call, or the flush, of the first stage
IsTransformStep == stages[1].state = "open" /\ Len(queues'[1]) < Len(queues[1])
IsFlushStep == stages[1].state = "open" /\ stages'[1].state = "flushed"

\* C26: a transform call of the Base64 encode stream enqueues only chunks
\* that encode whole 3-byte groups, without '='; its flush enqueues the
\* padded encoding of the 1 or 2 carry bytes as one chunk, and nothing when
\* the carry is empty.
C26_PaddingAtFlush ==
    [][ ( /\ scenario = "base64 chunks"
          /\ sop.t = "open"
          /\ sop.mode = "encode" )
        => /\ IsTransformStep =>
                  \A k \in 1..Len(NewChunks(2)) :
                      /\ Len(NewChunks(2)[k]) % 4 = 0
                      /\ Len(NewChunks(2)[k]) > 0
                      /\ \A j \in 1..Len(NewChunks(2)[k]) : NewChunks(2)[k][j] # 61
           /\ IsFlushStep =>
                  /\ Len(stages[1].leftover) \in 0..2
                  /\ NewChunks(2) = IF stages[1].leftover = <<>> THEN <<>>
                                    ELSE <<StandardBase64(stages[1].leftover)>> ]_vars

\* four bytes written as 3 + 1: 'UVFR' came from transform, 'UQ==' from flush
C26_Witness ==
    /\ scenario = "base64 chunks"
    /\ sop.t = "open"
    /\ sop.mode = "encode"
    /\ source = <<81, 81, 81, 81>>
    /\ stages[1].state = "flushed"
    /\ received = <<85, 86, 70, 82>>
    /\ queues[2] = <<<<85, 81, 61, 61>>>>

\* the last n bytes of a sequence
LastBytes(bytes, n) == SubSeq(bytes, Len(bytes) - n + 1, Len(bytes))

\* C27: between the calls of the Base64 encode stream, whatever the sizes of
\* the chunks written so far (empty ones included), the carry is the last
\* (bytes received mod 3) bytes of the input received: 0, 1 or 2 bytes.
C27_EncodeCarry ==
    ( /\ scenario = "base64 chunks"
      /\ sop.t = "open"
      /\ sop.mode = "encode"
      /\ stages[1].state = "open" )
    => /\ Len(stages[1].leftover) \in 0..2
       /\ stages[1].leftover = LastBytes(Consumed, Len(Consumed) % 3)

\* two bytes written in three chunks, one of them empty: both are carried
C27_Witness ==
    /\ scenario = "base64 chunks"
    /\ sop.t = "open"
    /\ sop.mode = "encode"
    /\ stages[1].state = "open"
    /\ Len(source) = 2
    /\ writes = 3
    /\ queues[1] = <<>>
    /\ stages[1].leftover = source

\* C28: between the calls of the Base64 decode stream the carry is the 0 to 3
\* symbols of the incomplete last group of the text received so far, with no
\* whitespace in it.
C28_DecodeCarry ==
    ( /\ scenario = "base64 chunks"
      /\ sop.t = "open"
      /\ sop.mode = "decode"
      /\ stages[1].state = "open" )
    => /\ Len(stages[1].leftover) \in 0..3
       /\ stages[1].leftover =
              LastBytes(SymbolsOf(Consumed), Len(SymbolsOf(Consumed)) % 4)

\* the content a transform call delivers when the whole groups of the carry
\* and the chunk are processed as one batch
EncodeUnbatched(leftover, chunk) ==
    LET combined == leftover \o chunk
    IN  Ok(encodeBase64Sync(Subarray(combined, 0, (Len(combined) \div 3) * 3)))

DecodeUnbatched(leftover, chunk) ==
    LET combined == leftover \o chunk
        completeGroups == GroupCharsIn(combined, Len(combined)) \div 4
    IN  IF completeGroups > 0
        THEN decodeBase64Sync(Subarray(combined, 0, processEndOf(combined, completeGroups)))
        ELSE Ok(<<>>)

\* C29: a transform call of the Base64 encode or decode stream that processes
\* its chunk in batches enqueues chunks whose concatenation is what the same
\* call delivers unbatched, whitespace in the chunk to decode included.
C29_Batching ==
    [][ ( /\ scenario = "base64 batches"
          /\ sop.t = "open"
          /\ IsTransformStep )
        => LET chunk == Head(queues[1])
               unbatched == IF sop.mode = "encode"
                            THEN EncodeUnbatched(stages[1].leftover, chunk)
                            ELSE DecodeUnbatched(stages[1].leftover, chunk)
           IN  unbatched.ok =>
                   /\ stages'[1].state = "open"
                   /\ Concat(NewChunks(2)) = unbatched.val ]_vars

\* an engine stage: its acc is all the input it has taken
IsEngine(i) ==
    stages[i].kind \notin {"createBase64EncodeStream", "createBase64DecodeStream"}

\* the bytes stage i has taken so far: what an engine has accumulated, what
\* has left the producer's queue for the first stage
Taken(i) == IF IsEngine(i) THEN stages[i].acc ELSE Consumed

\* the bytes stage i, not errored, has put out for the input it has taken
Produced(i) ==
    LET st == stages[i]
        t == Taken(i)
        group == IF st.kind = "createBase64EncodeStream" THEN 3 ELSE 4
        whole == (Len(t) \div group) * group
        tail == SubSeq(t, whole + 1, Len(t))
        atFlush == st.state = "flushed" /\ tail # <<>>
    IN  CASE st.kind = "createBase64EncodeStream" ->
                 encodeBase64Sync(SubSeq(t, 1, whole))
                     \o (IF atFlush THEN encodeBase64Sync(tail) ELSE <<>>)
          [] st.kind = "createBase64DecodeStream" ->
                 decodeBase64Sync(SubSeq(t, 1, whole)).val
                     \o (IF atFlush THEN decodeBase64Sync(tail).val ELSE <<>>)
          [] st.kind \in CompressKinds ->
                 IF st.state = "flushed" THEN engineCompress(st.kind, t) ELSE <<>>
          [] OTHER ->
                 IF st.state = "flushed" THEN engineDecompress(st.kind, t).val ELSE <<>>

\* the bytes handed to stage j so far, or to the reader for j = Len(stages) + 1
Handed(j) ==
    IF j = Len(stages) + 1 THEN Emitted ELSE Taken(j) \o Concat(queues[j])

\* stage q has just been given the chunk at the head of its queue
TakesHead(q) ==
    /\ queues[q] # <<>>
    /\ queues'[q] = Tail(queues[q])
    /\ stageTransform(stages[q], Head(queues[q])).ok
    /\ stages'[q] = stageTransform(stages[q], Head(queues[q])).st

\* stage i has just made a call whose chunks are added behind queues[i + 1]
PutsBehind(i) ==
    LET res == IF stages'[i].state = "flushed"
               THEN stageFlush(stages[i])
               ELSE stageTransform(stages[i], Head(queues[i]))
    IN  /\ stages[i].state = "open"
        /\ stages'[i].state = "flushed" \/ queues[i] # <<>>
        /\ res.ok
        /\ stages'[i] = res.st
        /\ queues'[i + 1] = queues[i + 1] \o res.outs

\* C30: in a pipeline of several stages, the chunks one stage puts out are
\* what the next stage is given, in the same order, none lost and none twice;
\* a stage is told the end of its input only after the stage before it has
\* flushed and all its chunks are taken; the reader sees the end only after
\* the last stage has flushed.
C30_ChainComposition ==
    /\ [][ (sop.t = "open" /\ Len(stages) >= 2) =>
             \A q \in 2..Len(stages) :
                 /\ queues'[q] # queues[q] =>
                        \/ PutsBehind(q - 1) /\ stages'[q] = stages[q]
                        \/ TakesHead(q) /\ stages'[q - 1] = stages[q - 1]
                        \/ stages'[q].state = "errored" /\ queues'[q] = <<>>
                 /\ (stages[q].state = "open" /\ stages'[q].state = "flushed") =>
                        /\ stages[q - 1].state = "flushed"
                        /\ queues[q] = <<>> ]_vars
    /\ []( (sop.t = "open" /\ Len(stages) >= 2) =>
             \A i \in 1..Len(stages) :
                 /\ ended[i + 1] => stages[i].state = "flushed"
                 /\ ( /\ stages[i].state # "errored"
                      /\ i = 1 \/ IsEngine(i)
                      /\ i = Len(stages) \/ stages[i + 1].state # "errored"
                      /\ i = Len(stages) \/ IsEngine(i + 1)
                      /\ failure = NoFailure )
                    => Produced(i) = Handed(i + 1) )

\* a pipeline of three or more stages has delivered all its output
C30_Witness ==
    /\ Finished
    /\ Len(stages) >= 3
    /\ received # <<>>
    /\ \A i \in 1..Len(stages) : stages[i].state = "flushed"

\* the flush of a stage adds its chunk behind one the next stage has not taken
C30_WitnessQueued ==
    /\ sop.t = "open"
    /\ Len(stages) >= 2
    /\ stages[1].state = "flushed"
    /\ stages[2].state = "open"
    /\ Len(queues[2]) >= 2

C35_LookupRoundTrip ==
    (scenario = "codec" /\ ~hasBuffer) =>
        LET text == encodeBase64Lookup(orig)
        IN  /\ encodeBase64Sync(orig) = text
            /\ decodeBase64Sync(text) = decodeBase64Lookup(text)
            /\ decodeBase64Lookup(text) = Ok(orig)
            /\ decodeBase64Lookup(text) = Ok(BufferFromBase64(text))

\* the pipeline is made of Base64 streams only
Base64Pipeline ==
    /\ sop.t = "open"
    /\ Len(stages) >= 1
    /\ \A i \in 1..Len(stages) :
           stages[i].kind \in {"createBase64EncodeStream", "createBase64DecodeStream"}

\* C40: with a producer that writes its chunks and closes and a reader that
\* keeps reading, a Base64 stream or a chain of Base64 streams comes to the
\* point where the reader has seen the end of the stream or an error.
C40_EventualCompletion ==
    Base64Pipeline ~> (Finished \/ failure # NoFailure)

\* a chain of several Base64 streams has delivered its output and ended
C40_Witness ==
    /\ Base64Pipeline
    /\ Len(stages) >= 2
    /\ Finished
    /\ received # <<>>

\* a chain of several Base64 streams has ended with an error
C40_WitnessError ==
    /\ Base64Pipeline
    /\ Len(stages) >= 2
    /\ failure # NoFailure

=============================================================================
